---- MODULE Spec2Model ----
(***************************************************************************)
(* Fixed-capacity string buffers of zuu_fstring: zuu::basic_fstring        *)
(* (include/zuu/core/core.hpp), the older zuu::string                      *)
(* (constant_string_class.hpp) and the segmentation algorithms of          *)
(* include/zuu/str/split.hpp.                                              *)
(*                                                                         *)
(* A buffer object is a record: cls (which class), cap (the template       *)
(* capacity), data_ (the Cap+1 stored units, indexed from 0) and size_     *)
(* (len_ in zuu::string).  Code units are their ASCII codes.  A pointer    *)
(* argument is a record [null, arr]: arr is the array it points to, as a   *)
(* sequence (arr[1] is element 0 of the C++ array).                        *)
(***************************************************************************)
EXTENDS Integers, Sequences, FiniteSets, TLC

VARIABLES s, pre, op, ret, out, res

vars == <<s, pre, op, ret, out, res>>

\* ------------------------------------------------------------------ bounds

\* Template capacity of the buffer object under test.
Cap == 3

\* MaxParts template argument used for the split results.
MaxParts == 2

\* Capacity of the input string of the segmentation operations: room for
\* MaxParts + 1 one-unit tokens and the delimiters between them.
SCap == 2 * MaxParts + 1

\* Capacity of the delimiter buffer handed to split_by.
DelimCap == 2

\* ------------------------------------------------------------- code units

\* CharT{}: the zero unit, used as terminator.
NUL == 0

\* ' '
SP == 32

\* 'a'
LA == 97

\* The code units the inputs are drawn from.
Units == {NUL, SP, LA}

\* Units a string literal or C string holds in front of its terminator.
TextUnits == Units \ {NUL}

\* Length of the longest argument array handed to an operation.
MaxLen == Cap + 1

Min(a, b) == IF a < b THEN a ELSE b

\* All sequences over S of length 0..n.
SeqsUpTo(S, n) == UNION {[1..k -> S] : k \in 0..n}

\* ----------------------------------------------------------------- values

NullPtr == [null |-> TRUE, arr |-> <<>>]

Ptr(a) == [null |-> FALSE, arr |-> a]

\* A string literal "text": the array of its characters and the terminator.
Lit(text) == Ptr(text \o <<NUL>>)

RVoid == [kind |-> "void", val |-> 0]

RObject == [kind |-> "object", val |-> 0]

RSelf == [kind |-> "self", val |-> 0]

RThrow == [kind |-> "out_of_range", val |-> 0]

RBool(x) == [kind |-> "bool", val |-> IF x THEN 1 ELSE 0]

RCount(n) == [kind |-> "count", val |-> n]

RUnit(u) == [kind |-> "unit", val |-> u]

\* The first size units of a buffer, as a sequence.
Content(b) == [i \in 1..b.size_ |-> b.data_[i - 1]]

\* data(): the pointer to the stored array of a buffer.
data(b) == Ptr([i \in 1..(b.cap + 1) |-> b.data_[i - 1]])

\* --------------------------------------------------- <algorithm> primitives

\* std::copy_n(src, n, dst + off).  A write past the array shows as an index
\* outside 0..Cap in the result.
copy_n(dst, off, src, n) ==
    [i \in (DOMAIN dst) \cup (off..(off + n - 1)) |->
        IF i >= off /\ i < off + n THEN src[i - off + 1] ELSE dst[i]]

\* std::fill_n(dst + off, n, ch)
fill_n(dst, off, n, ch) ==
    [i \in (DOMAIN dst) \cup (off..(off + n - 1)) |->
        IF i >= off /\ i < off + n THEN ch ELSE dst[i]]

\* Number of units in front of the first terminator of a C string.
RECURSIVE c_strlen(_, _)
c_strlen(arr, n) ==
    IF arr[n + 1] # NUL THEN c_strlen(arr, n + 1) ELSE n

\* ------------------------------------------------------ zuu::basic_fstring

\* data_[Cap + 1]{} and size_{}: the default constructor.
fstring_default(cap) ==
    [cls |-> "fstring", cap |-> cap, data_ |-> [i \in 0..cap |-> NUL], size_ |-> 0]

\* Mutant: the terminator is not written.
set_null_terminator_skipped(b) == b

set_null_terminator(b) == [b EXCEPT !.data_[b.size_] = NUL]

empty(b) == b.size_ = 0

available(b) == b.cap - b.size_

full(b) == b.size_ = b.cap

\* basic_fstring(const CharT (&str)[N])
fstring_from_literal(cap, str) ==
    LET b0 == fstring_default(cap)
        n  == Min(cap, Len(str.arr) - 1)
    IN  set_null_terminator([b0 EXCEPT !.size_ = n,
                                       !.data_ = copy_n(b0.data_, 0, str.arr, n)])

\* basic_fstring(const_pointer str, size_type len)
fstring_from_ptr_len(cap, str, len) ==
    LET b0 == fstring_default(cap)
        n  == Min(cap, len)
    IN  IF ~str.null
        THEN set_null_terminator([b0 EXCEPT !.size_ = n,
                                            !.data_ = copy_n(b0.data_, 0, str.arr, n)])
        ELSE b0

\* The scan of basic_fstring(const_pointer str): copies until the terminator
\* or Cap units.
RECURSIVE fstring_cstr_scan(_, _, _)
fstring_cstr_scan(b, arr, len) ==
    IF arr[len + 1] # NUL /\ len < b.cap
    THEN fstring_cstr_scan([b EXCEPT !.data_[len] = arr[len + 1]], arr, len + 1)
    ELSE set_null_terminator([b EXCEPT !.size_ = len])

\* explicit basic_fstring(const_pointer str)
fstring_from_cstr(cap, str) ==
    IF ~str.null THEN fstring_cstr_scan(fstring_default(cap), str.arr, 0)
    ELSE fstring_default(cap)

\* basic_fstring(size_type count, CharT ch)
fstring_fill(cap, count, ch) ==
    LET b0 == fstring_default(cap)
        n  == Min(cap, count)
    IN  set_null_terminator([b0 EXCEPT !.size_ = n,
                                       !.data_ = fill_n(b0.data_, 0, n, ch)])

\* Mutant: the bound check lets pos = size() through.
at_out_of_range_late(b, pos) == pos > b.size_

at_out_of_range(b, pos) == pos >= b.size_

\* at(pos): throws std::out_of_range or returns the unit.
at(b, pos) ==
    IF at_out_of_range(b, pos) THEN [buf |-> b, ret |-> RThrow]
    ELSE [buf |-> b, ret |-> RUnit(b.data_[pos])]

clear(b) ==
    [buf |-> [b EXCEPT !.size_ = 0, !.data_[0] = NUL], ret |-> RVoid]

push_back(b, ch) ==
    IF ~full(b)
    THEN [buf |-> set_null_terminator([b EXCEPT !.data_[b.size_] = ch,
                                                !.size_ = b.size_ + 1]),
          ret |-> RVoid]
    ELSE [buf |-> b, ret |-> RVoid]

pop_back(b) ==
    IF b.size_ > 0
    THEN [buf |-> set_null_terminator([b EXCEPT !.size_ = b.size_ - 1]), ret |-> RVoid]
    ELSE [buf |-> b, ret |-> RVoid]

resize(b, new_size, ch) ==
    LET n == Min(new_size, b.cap)
        d == IF n > b.size_ THEN fill_n(b.data_, b.size_, n - b.size_, ch)
             ELSE b.data_
    IN  [buf |-> set_null_terminator([b EXCEPT !.data_ = d, !.size_ = n]),
         ret |-> RVoid]

\* Mutant: the clamp keeps one unit of room back.
append_len_short(b, len) == Min(len, available(b) - 1)

\* Number of units append(str, len) copies.
append_len(b, len) == Min(len, available(b))

\* append(const_pointer str, size_type len)
append(b, str, len) ==
    IF ~str.null /\ ~full(b)
    THEN LET n == append_len(b, len)
         IN  [buf |-> set_null_terminator(
                         [b EXCEPT !.data_ = copy_n(b.data_, b.size_, str.arr, n),
                                   !.size_ = b.size_ + n]),
              ret |-> RSelf]
    ELSE [buf |-> b, ret |-> RSelf]

\* append(CharT ch)
append_ch(b, ch) == [buf |-> push_back(b, ch).buf, ret |-> RSelf]

\* append(size_type count, CharT ch)
append_fill(b, count, ch) ==
    LET n == Min(count, available(b))
    IN  [buf |-> set_null_terminator(
                    [b EXCEPT !.data_ = fill_n(b.data_, b.size_, n, ch),
                              !.size_ = b.size_ + n]),
         ret |-> RSelf]

\* Number of units of the array rhs[N] that operator+= and operator+ hand to
\* append.
literal_units(str) == Len(str.arr)

\* operator+=(const CharT (&rhs)[N])
plus_assign_literal(b, rhs) == append(b, rhs, literal_units(rhs))

\* operator+=(const basic_fstring<CharT, N>& rhs)
plus_assign_fstring(b, rhs) == append(b, data(rhs), rhs.size_)

\* operator+=(CharT ch)
plus_assign_ch(b, ch) == append_ch(b, ch)

\* operator+(const CharT (&rhs)[N]): a new buffer of capacity Cap + N.
plus_literal(b, rhs) ==
    LET r0 == fstring_default(b.cap + Len(rhs.arr))
        r1 == append(r0, data(b), b.size_).buf
    IN  append(r1, rhs, literal_units(rhs)).buf

\* operator+(const basic_fstring<CharT, N>& rhs): a new buffer of capacity
\* Cap + N.
plus_fstring(b, rhs) ==
    LET r0 == fstring_default(b.cap + rhs.cap)
        r1 == append(r0, data(b), b.size_).buf
    IN  append(r1, data(rhs), rhs.size_).buf

\* operator std::basic_string_view<CharT>(): {data_, size_}, as a sequence.
to_string_view(b) == [i \in 1..b.size_ |-> b.data_[i - 1]]

\* operator==(std::basic_string_view<CharT> sv)
equals_view(b, sv) == to_string_view(b) = sv

\* Memberwise comparison of data_ (all Cap + 1 units) and size_: what a
\* defaulted operator== would compute.
equals_memberwise(a, b) == a.data_ = b.data_ /\ a.size_ = b.size_

\* a == b for two basic_fstring.  The class declares operator==(string_view),
\* so the defaulted operator<=> declares no operator==: the call resolves to
\* that member, with b converted by operator basic_string_view.
equals(a, b) == equals_view(a, to_string_view(b))

\* ------------------------------------------------------------ zuu::string
\* (len_ is the field size_ of the record.)

\* detail::memcpy_string(dst + off, src, n)
memcpy_string(dst, off, src, n) == copy_n(dst, off, src, n)

\* detail::memset_string(dst + off, ch, n)
memset_string(dst, off, ch, n) == fill_n(dst, off, n, ch)

\* detail::memmove_string(d + to, d + from, n): the n units are read before
\* any is written.
memmove_string(d, to, from, n) ==
    [i \in (DOMAIN d) \cup (to..(to + n - 1)) |->
        IF i >= to /\ i < to + n THEN d[i - to + from] ELSE d[i]]

\* detail::strlen(str)
strlen(str) == c_strlen(str.arr, 0)

\* detail::is_space(ch)
is_space(ch) == ch \in {32, 9, 10, 13, 12, 11}

string_default(cap) ==
    [cls |-> "string", cap |-> cap, data_ |-> [i \in 0..cap |-> NUL], size_ |-> 0]

\* assign_impl(const CharT* str, size_type count)
assign_impl(b, str, count) ==
    LET n == IF count < b.cap THEN count ELSE b.cap
    IN  [b EXCEPT !.size_ = n,
                  !.data_ = [memcpy_string(b.data_, 0, str.arr, n) EXCEPT ![n] = NUL]]

\* string(const CharT* str)
string_from_cstr(cap, str) ==
    IF ~str.null THEN assign_impl(string_default(cap), str, strlen(str))
    ELSE string_default(cap)

\* string(const CharT (&str)[M])
string_from_literal(cap, str) ==
    assign_impl(string_default(cap), str,
                IF Len(str.arr) > 0 THEN Len(str.arr) - 1 ELSE 0)

\* string(size_type count, CharT ch)
string_fill(cap, count, ch) ==
    LET b0 == string_default(cap)
        n  == IF count < cap THEN count ELSE cap
    IN  [b0 EXCEPT !.size_ = n,
                   !.data_ = [memset_string(b0.data_, 0, ch, n) EXCEPT ![n] = NUL]]

\* string(const string<CharT, M>& other)
string_from_string(cap, other) ==
    assign_impl(string_default(cap), data(other), other.size_)

string_clear(b) ==
    [buf |-> [b EXCEPT !.size_ = 0, !.data_[0] = NUL], ret |-> RVoid]

\* operator=(const CharT* str)
string_assign_cstr(b, str) ==
    IF ~str.null THEN [buf |-> assign_impl(b, str, strlen(str)), ret |-> RSelf]
    ELSE [buf |-> string_clear(b).buf, ret |-> RSelf]

\* operator=(const string<CharT, M>& other)
string_assign_string(b, other) ==
    [buf |-> assign_impl(b, data(other), other.size_), ret |-> RSelf]

string_push_back(b, ch) ==
    IF b.size_ >= b.cap THEN [buf |-> b, ret |-> RBool(FALSE)]
    ELSE [buf |-> [b EXCEPT !.data_[b.size_] = ch,
                            !.data_[b.size_ + 1] = NUL,
                            !.size_ = b.size_ + 1],
          ret |-> RBool(TRUE)]

string_pop_back(b) ==
    IF b.size_ > 0
    THEN [buf |-> [b EXCEPT !.size_ = b.size_ - 1, !.data_[b.size_ - 1] = NUL],
          ret |-> RVoid]
    ELSE [buf |-> b, ret |-> RVoid]

\* Number of units append(str, count) copies.
string_to_copy(b, count) == Min(count, b.cap - b.size_)

\* append(const CharT* str, size_type count)
string_append(b, str, count) ==
    IF str.null \/ count = 0 \/ b.size_ >= b.cap THEN [buf |-> b, ret |-> RCount(0)]
    ELSE LET to_copy == string_to_copy(b, count)
             d       == memcpy_string(b.data_, b.size_, str.arr, to_copy)
         IN  [buf |-> [b EXCEPT !.data_ = [d EXCEPT ![b.size_ + to_copy] = NUL],
                                !.size_ = b.size_ + to_copy],
              ret |-> RCount(to_copy)]

\* append(const CharT* str)
string_append_cstr(b, str) ==
    IF ~str.null THEN string_append(b, str, strlen(str))
    ELSE [buf |-> b, ret |-> RCount(0)]

\* append(const string<CharT, M>& other)
string_append_string(b, other) == string_append(b, data(other), other.size_)

\* append(size_type count, CharT ch)
string_append_fill(b, count, ch) ==
    IF count = 0 \/ b.size_ >= b.cap THEN [buf |-> b, ret |-> RCount(0)]
    ELSE LET to_add == Min(count, b.cap - b.size_)
             d      == memset_string(b.data_, b.size_, ch, to_add)
         IN  [buf |-> [b EXCEPT !.data_ = [d EXCEPT ![b.size_ + to_add] = NUL],
                                !.size_ = b.size_ + to_add],
              ret |-> RCount(to_add)]

\* operator+=(const CharT* str); a literal reaches this overload by decay.
string_plus_assign_cstr(b, str) == [buf |-> string_append_cstr(b, str).buf, ret |-> RSelf]

\* operator+=(CharT ch)
string_plus_assign_ch(b, ch) == [buf |-> string_push_back(b, ch).buf, ret |-> RSelf]

\* Mutant: the units are copied in without the tail being moved first.
string_insert_over_tail(b, pos, str, count) ==
    IF str.null \/ pos > b.size_ \/ count = 0 \/ b.size_ >= b.cap
    THEN [buf |-> b, ret |-> RSelf]
    ELSE LET to_insert == Min(count, b.cap - b.size_)
             d2 == memcpy_string(b.data_, pos, str.arr, to_insert)
             n  == Min(b.size_ + to_insert, b.cap)
         IN  [buf |-> [b EXCEPT !.data_ = [d2 EXCEPT ![n] = NUL], !.size_ = n],
              ret |-> RSelf]

\* insert(size_type pos, const CharT* str, size_type count)
string_insert(b, pos, str, count) ==
    IF str.null \/ pos > b.size_ \/ count = 0 \/ b.size_ >= b.cap
    THEN [buf |-> b, ret |-> RSelf]
    ELSE LET space     == b.cap - b.size_
             to_insert == Min(count, space)
             to_move   == b.size_ - pos
             d1 == IF to_move > 0
                   THEN memmove_string(b.data_, pos + to_insert, pos, to_move)
                   ELSE b.data_
             d2 == memcpy_string(d1, pos, str.arr, to_insert)
             n  == Min(b.size_ + to_insert, b.cap)
         IN  [buf |-> [b EXCEPT !.data_ = [d2 EXCEPT ![n] = NUL], !.size_ = n],
              ret |-> RSelf]

\* Mutant: everything from pos on is removed, whatever count says.
string_erase_to_end(b, pos, count) ==
    IF pos >= b.size_ THEN [buf |-> b, ret |-> RSelf]
    ELSE [buf |-> [b EXCEPT !.data_[pos] = NUL, !.size_ = pos], ret |-> RSelf]

\* erase(size_type pos, size_type count)
string_erase(b, pos, count) ==
    IF pos >= b.size_ THEN [buf |-> b, ret |-> RSelf]
    ELSE LET to_erase == Min(count, b.size_ - pos)
             new_len  == b.size_ - to_erase
             to_move  == b.size_ - (pos + to_erase)
             d1 == IF to_move > 0
                   THEN memmove_string(b.data_, pos, pos + to_erase, to_move)
                   ELSE b.data_
         IN  [buf |-> [b EXCEPT !.data_ = [d1 EXCEPT ![new_len] = NUL],
                                !.size_ = new_len],
              ret |-> RSelf]

\* replace(size_type pos, size_type count, const CharT* str, size_type str_len)
string_replace(b, pos, count, str, str_len) ==
    IF str.null \/ pos > b.size_ THEN [buf |-> b, ret |-> RSelf]
    ELSE string_insert(string_erase(b, pos, count).buf, pos, str, str_len)

\* The swap loop of reverse(), from index i.
RECURSIVE string_reverse_loop(_, _)
string_reverse_loop(b, i) ==
    IF i < b.size_ \div 2
    THEN string_reverse_loop(
             [b EXCEPT !.data_[i] = b.data_[b.size_ - 1 - i],
                       !.data_[b.size_ - 1 - i] = b.data_[i]], i + 1)
    ELSE b

string_reverse(b) == [buf |-> string_reverse_loop(b, 0), ret |-> RSelf]

\* while (start < len_ && is_space(data_[start])) ++start;
RECURSIVE trim_start(_, _)
trim_start(b, start) ==
    IF start < b.size_ /\ is_space(b.data_[start]) THEN trim_start(b, start + 1)
    ELSE start

\* while (end > start && is_space(data_[end - 1])) --end;
RECURSIVE trim_end(_, _, _)
trim_end(b, start, end) ==
    IF end > start /\ is_space(b.data_[end - 1]) THEN trim_end(b, start, end - 1)
    ELSE end

string_trim(b) ==
    LET start == trim_start(b, 0)
        end   == trim_end(b, start, b.size_)
        n     == end - start
        d1    == IF start > 0 THEN memmove_string(b.data_, 0, start, n) ELSE b.data_
    IN  IF start > 0 \/ end < b.size_
        THEN [buf |-> [b EXCEPT !.data_ = [d1 EXCEPT ![n] = NUL], !.size_ = n],
              ret |-> RSelf]
        ELSE [buf |-> b, ret |-> RSelf]

\* ------------------------------------------------- zuu::str segmentation

\* static_cast<size_type>(-1): the not-found value, no index of any buffer.
npos == -1

\* Mutant: the scan stops one index short of the last possible start.
RECURSIVE find_loop_short(_, _, _, _)
find_loop_short(b, arr, str_len, i) ==
    IF i < b.size_ - str_len
    THEN IF \A j \in 0..(str_len - 1) : b.data_[i + j] = arr[j + 1]
         THEN i
         ELSE find_loop_short(b, arr, str_len, i + 1)
    ELSE npos

\* The scan of find(const_pointer str, pos) from index i.
RECURSIVE find_loop(_, _, _, _)
find_loop(b, arr, str_len, i) ==
    IF i <= b.size_ - str_len
    THEN IF \A j \in 0..(str_len - 1) : b.data_[i + j] = arr[j + 1]
         THEN i
         ELSE find_loop(b, arr, str_len, i + 1)
    ELSE npos

\* basic_fstring::find(const_pointer str, size_type pos)
find(b, str, pos) ==
    IF str.null THEN npos
    ELSE LET str_len == c_strlen(str.arr, 0)
         IN  IF str_len = 0 THEN pos
             ELSE IF pos + str_len > b.size_ THEN npos
             ELSE find_loop(b, str.arr, str_len, pos)

\* split_result<CharT, Cap, MaxParts>{}
split_result_default(cap) ==
    [parts |-> [k \in 0..(MaxParts - 1) |-> fstring_default(cap)], count |-> 0]

\* result.parts[result.count++] = part
add_part(result, part) ==
    [result EXCEPT !.parts[result.count] = part, !.count = result.count + 1]

\* Mutant: the last slot of the result is never used.
has_room_tight(result) == result.count + 1 < MaxParts

\* Whether a pending token may be stored.
has_room(result) == result.count < MaxParts

\* The for loop of split_char_fn::operator(), from index i.
RECURSIVE split_loop(_, _, _, _, _)
split_loop(str, delimiter, i, result, current) ==
    IF i < str.size_
    THEN IF str.data_[i] = delimiter
         THEN IF ~empty(current) /\ has_room(result)
              THEN split_loop(str, delimiter, i + 1,
                              add_part(result, current), clear(current).buf)
              ELSE split_loop(str, delimiter, i + 1, result, current)
         ELSE IF ~full(current)
              THEN split_loop(str, delimiter, i + 1, result,
                              push_back(current, str.data_[i]).buf)
              ELSE split_loop(str, delimiter, i + 1, result, current)
    ELSE [result |-> result, current |-> current]

\* Mutant: the pending token is stored at the end even when it is empty.
split_keeps_empty_tail(str, delimiter) ==
    LET r == split_loop(str, delimiter, 0, split_result_default(str.cap),
                        fstring_default(str.cap))
    IN  IF has_room(r.result) THEN add_part(r.result, r.current) ELSE r.result

\* split(str, delimiter): split_char_fn::operator()
split(str, delimiter) ==
    LET r == split_loop(str, delimiter, 0, split_result_default(str.cap),
                        fstring_default(str.cap))
    IN  IF ~empty(r.current) /\ has_room(r.result)
        THEN add_part(r.result, r.current)
        ELSE r.result

\* for (i = from; i < to && !part.full(); ++i) part.push_back(str[i]);
RECURSIVE collect_part(_, _, _, _)
collect_part(str, i, to, part) ==
    IF i < to /\ ~full(part)
    THEN collect_part(str, i + 1, to, push_back(part, str.data_[i]).buf)
    ELSE part

\* The while loop of split_str_fn::operator(), from position pos.
RECURSIVE split_by_loop(_, _, _, _)
split_by_loop(str, delimiter, pos, result) ==
    IF pos < str.size_ /\ has_room(result)
    THEN LET found == find(str, data(delimiter), pos)
         IN  IF found = npos
             THEN LET part == collect_part(str, pos, str.size_, fstring_default(str.cap))
                  IN  IF ~empty(part) THEN add_part(result, part) ELSE result
             ELSE LET part == collect_part(str, pos, found, fstring_default(str.cap))
                      r1   == IF ~empty(part) THEN add_part(result, part) ELSE result
                  IN  split_by_loop(str, delimiter, found + delimiter.size_, r1)
    ELSE result

\* split_by(str, delimiter): split_str_fn::operator()
split_by(str, delimiter) ==
    LET result == split_result_default(str.cap)
    IN  IF empty(delimiter)
        THEN IF has_room(result) THEN add_part(result, str) ELSE result
        ELSE split_by_loop(str, delimiter, 0, result)

\* Mutant: the delimiter is written in front of the first part too.
delimiter_due_always(i) == i >= 0

\* i > 0: a delimiter goes in front of every part but the first.
delimiter_due(i) == i > 0

\* The for loop of join_fn::operator()(split_result, CharT), from part i.
RECURSIVE join_loop(_, _, _, _)
join_loop(result, delimiter, i, joined) ==
    IF i < result.count
    THEN LET j1 == IF delimiter_due(i) /\ ~full(joined)
                   THEN push_back(joined, delimiter).buf
                   ELSE joined
             j2 == IF ~full(j1)
                   THEN append(j1, data(result.parts[i]), result.parts[i].size_).buf
                   ELSE j1
         IN  join_loop(result, delimiter, i + 1, j2)
    ELSE joined

\* Cap * MaxParts + MaxParts
join_result_cap(cap) == cap * MaxParts + MaxParts

\* join(result, delimiter): join_fn::operator()(split_result, CharT)
join(result, delimiter) ==
    join_loop(result, delimiter, 0,
              fstring_default(join_result_cap(result.parts[0].cap)))

\* ----------------------------------------------------------------- inputs

\* One text longer than the capacity: "a...a ", its last unit beyond Cap.
LongText == [i \in 1..MaxLen |-> IF i = MaxLen THEN SP ELSE LA]

\* Texts of string literals and C strings (no embedded terminator): every
\* text that fits the capacity, and the long one.
Texts == SeqsUpTo(TextUnits, Cap) \cup {LongText}

\* Arrays a (pointer, length) argument may point to.
Arrays == SeqsUpTo(Units, Cap) \cup {LongText}

Counts == 0..MaxLen

\* The last operation and its arguments.
Op(name, str, n, ch, pos) ==
    [name |-> name, str |-> str, n |-> n, ch |-> ch, pos |-> pos, delim |-> NUL]

NoBuf == fstring_default(0)

NoRes == [parts |-> [k \in 0..(MaxParts - 1) |-> NoBuf], count |-> 0]

\* No call is in progress: the caller has taken the last call's result.
Idle == op.name = "idle"

\* A member call on the object s: r is [buf, ret], what the call leaves and
\* returns.
Call(o, r) ==
    /\ Idle
    /\ pre' = s
    /\ s' = r.buf
    /\ ret' = r.ret
    /\ op' = o
    /\ out' = NoBuf
    /\ res' = NoRes

\* s = T(...): the object is replaced by a newly constructed one.
Construct(o, b) == Call(o, [buf |-> b, ret |-> RObject])

\* A call that leaves s alone and returns a new buffer.
Produce(o, b) ==
    /\ Idle
    /\ pre' = s
    /\ s' = s
    /\ ret' = RObject
    /\ op' = o
    /\ out' = b
    /\ res' = NoRes

IsF == s.cls = "fstring"

IsS == s.cls = "string"

\* ------------------------------------------- operations on basic_fstring

F_default ==
    /\ IsF
    /\ Construct(Op("basic_fstring()", NullPtr, 0, NUL, 0), fstring_default(Cap))

F_from_literal ==
    /\ IsF
    /\ \E t \in Texts :
          Construct(Op("basic_fstring(literal)", Lit(t), 0, NUL, 0),
                    fstring_from_literal(Cap, Lit(t)))

F_from_ptr_len ==
    /\ IsF
    /\ \/ \E a \in Arrays :
             Construct(Op("basic_fstring(ptr,len)", Ptr(a), Len(a), NUL, 0),
                       fstring_from_ptr_len(Cap, Ptr(a), Len(a)))
       \/ \E n \in Counts :
             Construct(Op("basic_fstring(ptr,len)", NullPtr, n, NUL, 0),
                       fstring_from_ptr_len(Cap, NullPtr, n))

F_from_cstr ==
    /\ IsF
    /\ \E p \in {Lit(t) : t \in Texts} \cup {NullPtr} :
          Construct(Op("basic_fstring(ptr)", p, 0, NUL, 0), fstring_from_cstr(Cap, p))

F_fill ==
    /\ IsF
    /\ \E n \in Counts, ch \in Units :
          Construct(Op("basic_fstring(count,ch)", NullPtr, n, ch, 0),
                    fstring_fill(Cap, n, ch))

F_at ==
    /\ IsF
    /\ \E pos \in Counts : Call(Op("at", NullPtr, 0, NUL, pos), at(s, pos))

F_clear ==
    /\ IsF
    /\ Call(Op("clear", NullPtr, 0, NUL, 0), clear(s))

F_push_back ==
    /\ IsF
    /\ \E ch \in Units : Call(Op("push_back", NullPtr, 0, ch, 0), push_back(s, ch))

F_pop_back ==
    /\ IsF
    /\ Call(Op("pop_back", NullPtr, 0, NUL, 0), pop_back(s))

F_resize ==
    /\ IsF
    /\ \E n \in Counts, ch \in Units :
          Call(Op("resize", NullPtr, n, ch, 0), resize(s, n, ch))

F_append ==
    /\ IsF
    /\ \/ \E a \in Arrays :
             Call(Op("append", Ptr(a), Len(a), NUL, 0), append(s, Ptr(a), Len(a)))
       \/ \E n \in Counts :
             Call(Op("append", NullPtr, n, NUL, 0), append(s, NullPtr, n))

F_append_ch ==
    /\ IsF
    /\ \E ch \in Units : Call(Op("append(ch)", NullPtr, 0, ch, 0), append_ch(s, ch))

F_append_fill ==
    /\ IsF
    /\ \E n \in Counts, ch \in Units :
          Call(Op("append(count,ch)", NullPtr, n, ch, 0), append_fill(s, n, ch))

F_plus_assign_literal ==
    /\ IsF
    /\ \E t \in Texts :
          Call(Op("+=literal", Lit(t), 0, NUL, 0), plus_assign_literal(s, Lit(t)))

\* rhs is a basic_fstring<MaxLen> holding the text t.
F_plus_assign_fstring ==
    /\ IsF
    /\ \E t \in Texts :
          Call(Op("+=fstring", Lit(t), 0, NUL, 0),
               plus_assign_fstring(s, fstring_from_literal(MaxLen, Lit(t))))

F_plus_assign_ch ==
    /\ IsF
    /\ \E ch \in Units : Call(Op("+=ch", NullPtr, 0, ch, 0), plus_assign_ch(s, ch))

F_plus_literal ==
    /\ IsF
    /\ \E t \in Texts :
          Produce(Op("+literal", Lit(t), 0, NUL, 0), plus_literal(s, Lit(t)))

F_plus_fstring ==
    /\ IsF
    /\ \E t \in Texts :
          Produce(Op("+fstring", Lit(t), 0, NUL, 0),
                  plus_fstring(s, fstring_from_literal(MaxLen, Lit(t))))

\* s == other, other a newly constructed basic_fstring<Cap> holding the text t.
F_equals ==
    /\ IsF
    /\ \E t \in Texts :
          Call(Op("==", Lit(t), 0, NUL, 0),
               [buf |-> s, ret |-> RBool(equals(s, fstring_from_literal(Cap, Lit(t))))])

\* --------------------------------------------- operations on zuu::string

S_default ==
    /\ IsS
    /\ Construct(Op("string()", NullPtr, 0, NUL, 0), string_default(Cap))

S_from_cstr ==
    /\ IsS
    /\ \E p \in {Lit(t) : t \in Texts} \cup {NullPtr} :
          Construct(Op("string(ptr)", p, 0, NUL, 0), string_from_cstr(Cap, p))

S_from_literal ==
    /\ IsS
    /\ \E t \in Texts :
          Construct(Op("string(literal)", Lit(t), 0, NUL, 0),
                    string_from_literal(Cap, Lit(t)))

S_fill ==
    /\ IsS
    /\ \E n \in Counts, ch \in Units :
          Construct(Op("string(count,ch)", NullPtr, n, ch, 0), string_fill(Cap, n, ch))

\* other is a string<MaxLen> holding the text t.
S_from_string ==
    /\ IsS
    /\ \E t \in Texts :
          Construct(Op("string(string)", Lit(t), 0, NUL, 0),
                    string_from_string(Cap, string_from_literal(MaxLen, Lit(t))))

S_assign_cstr ==
    /\ IsS
    /\ \E p \in {Lit(t) : t \in Texts} \cup {NullPtr} :
          Call(Op("=ptr", p, 0, NUL, 0), string_assign_cstr(s, p))

S_assign_string ==
    /\ IsS
    /\ \E t \in Texts :
          Call(Op("=string", Lit(t), 0, NUL, 0),
               string_assign_string(s, string_from_literal(MaxLen, Lit(t))))

S_at ==
    /\ IsS
    /\ \E pos \in Counts : Call(Op("at", NullPtr, 0, NUL, pos), at(s, pos))

S_clear ==
    /\ IsS
    /\ Call(Op("clear", NullPtr, 0, NUL, 0), string_clear(s))

S_push_back ==
    /\ IsS
    /\ \E ch \in Units : Call(Op("push_back", NullPtr, 0, ch, 0), string_push_back(s, ch))

S_pop_back ==
    /\ IsS
    /\ Call(Op("pop_back", NullPtr, 0, NUL, 0), string_pop_back(s))

S_append ==
    /\ IsS
    /\ \/ \E a \in Arrays :
             Call(Op("append", Ptr(a), Len(a), NUL, 0), string_append(s, Ptr(a), Len(a)))
       \/ \E n \in Counts :
             Call(Op("append", NullPtr, n, NUL, 0), string_append(s, NullPtr, n))

S_append_cstr ==
    /\ IsS
    /\ \E p \in {Lit(t) : t \in Texts} \cup {NullPtr} :
          Call(Op("append(ptr)", p, 0, NUL, 0), string_append_cstr(s, p))

S_append_string ==
    /\ IsS
    /\ \E t \in Texts :
          Call(Op("append(string)", Lit(t), 0, NUL, 0),
               string_append_string(s, string_from_literal(MaxLen, Lit(t))))

S_append_fill ==
    /\ IsS
    /\ \E n \in Counts, ch \in Units :
          Call(Op("append(count,ch)", NullPtr, n, ch, 0), string_append_fill(s, n, ch))

S_plus_assign_cstr ==
    /\ IsS
    /\ \E p \in {Lit(t) : t \in Texts} \cup {NullPtr} :
          Call(Op("+=ptr", p, 0, NUL, 0), string_plus_assign_cstr(s, p))

S_plus_assign_ch ==
    /\ IsS
    /\ \E ch \in Units : Call(Op("+=ch", NullPtr, 0, ch, 0), string_plus_assign_ch(s, ch))

S_insert ==
    /\ IsS
    /\ \E pos \in Counts, t \in Texts :
          Call(Op("insert", Ptr(t), Len(t), NUL, pos), string_insert(s, pos, Ptr(t), Len(t)))

S_erase ==
    /\ IsS
    /\ \E pos \in Counts, n \in Counts :
          Call(Op("erase", NullPtr, n, NUL, pos), string_erase(s, pos, n))

S_replace ==
    /\ IsS
    /\ \E pos \in Counts, n \in Counts, t \in SeqsUpTo(TextUnits, 1) :
          Call(Op("replace", Ptr(t), n, NUL, pos), string_replace(s, pos, n, Ptr(t), Len(t)))

S_reverse ==
    /\ IsS
    /\ Call(Op("reverse", NullPtr, 0, NUL, 0), string_reverse(s))

S_trim ==
    /\ IsS
    /\ Call(Op("trim", NullPtr, 0, NUL, 0), string_trim(s))

\* The caller takes the result of the last call; the object stays as it is.
Return ==
    /\ ~Idle
    /\ op' = Op("idle", NullPtr, 0, NUL, 0)
    /\ pre' = s
    /\ ret' = RVoid
    /\ out' = NoBuf
    /\ res' = NoRes
    /\ UNCHANGED s

\* ----------------------------------------------------------- the buffers

Init ==
    /\ s \in {fstring_default(Cap), string_default(Cap)}
    /\ pre = s
    /\ op = Op("idle", NullPtr, 0, NUL, 0)
    /\ ret = RVoid
    /\ out = NoBuf
    /\ res = NoRes

Next ==
    \/ F_default \/ F_from_literal \/ F_from_ptr_len \/ F_from_cstr \/ F_fill
    \/ F_at \/ F_clear \/ F_push_back \/ F_pop_back \/ F_resize
    \/ F_append \/ F_append_ch \/ F_append_fill
    \/ F_plus_assign_literal \/ F_plus_assign_fstring \/ F_plus_assign_ch
    \/ F_plus_literal \/ F_plus_fstring \/ F_equals
    \/ S_default \/ S_from_cstr \/ S_from_literal \/ S_fill \/ S_from_string
    \/ S_assign_cstr \/ S_assign_string
    \/ S_at \/ S_clear \/ S_push_back \/ S_pop_back
    \/ S_append \/ S_append_cstr \/ S_append_string \/ S_append_fill
    \/ S_plus_assign_cstr \/ S_plus_assign_ch
    \/ S_insert \/ S_erase \/ S_replace \/ S_reverse \/ S_trim
    \/ Return

Spec == Init /\ [][Next]_vars

\* ------------------------------------------------ segmentation operations

\* Input strings of the segmentation operations: basic_fstring<SCap>.
SplitInputs ==
    {fstring_from_ptr_len(SCap, Ptr(a), Len(a)) : a \in SeqsUpTo(Units, SCap)}

\* Delimiter strings of split_by: basic_fstring<DelimCap>.
Delimiters ==
    {fstring_from_ptr_len(DelimCap, Ptr(a), Len(a)) : a \in SeqsUpTo(Units, DelimCap)}

\* res = split(s, d)
Split ==
    /\ Idle
    /\ \E d \in Units :
          /\ res' = split(s, d)
          /\ op' = [Op("split", NullPtr, 0, NUL, 0) EXCEPT !.delim = d]
    /\ pre' = s
    /\ ret' = RObject
    /\ out' = NoBuf
    /\ UNCHANGED s

\* res = split_by(s, delimiter)
SplitBy ==
    /\ Idle
    /\ \E d \in Delimiters :
          /\ res' = split_by(s, d)
          /\ op' = Op("split_by", data(d), d.size_, NUL, 0)
    /\ pre' = s
    /\ ret' = RObject
    /\ out' = NoBuf
    /\ UNCHANGED s

\* out = join(res, ch), res the result of the split just made with op.delim.
Join ==
    /\ op.name = "split"
    /\ \E ch \in Units :
          /\ out' = join(res, ch)
          /\ op' = [op EXCEPT !.name = "join", !.ch = ch]
    /\ ret' = RObject
    /\ UNCHANGED <<s, pre, res>>

InitSplit ==
    /\ s \in SplitInputs
    /\ pre = s
    /\ op = Op("idle", NullPtr, 0, NUL, 0)
    /\ ret = RVoid
    /\ out = NoBuf
    /\ res = NoRes

NextSplit == Split \/ SplitBy \/ Join \/ Return

SpecSplit == InitSplit /\ [][NextSplit]_vars

\* ------------------------------------------------------------------ claims

\* The units an appending call is asked to append, for the calls that take
\* their units from an array, a text or a fill.
Requested ==
    IF op.name \in {"append", "insert"} THEN SubSeq(op.str.arr, 1, op.n)
    ELSE IF op.name = "append(count,ch)" THEN [i \in 1..op.n |-> op.ch]
    ELSE IF op.name \in {"push_back", "append(ch)", "+=ch"} THEN <<op.ch>>
    ELSE SubSeq(op.str.arr, 1, Len(op.str.arr) - 1)

\* The calls that append: all append overloads, push_back and operator+=.
AppendOps ==
    {"append", "append(count,ch)", "append(ch)", "push_back", "+=ch", "+=literal",
     "+=fstring", "append(ptr)", "append(string)", "+=ptr"}

\* C1: after every constructor and every mutating operation of both classes
\* the size is within 0..capacity, the stored array still has exactly
\* capacity + 1 units, and the unit at index size() is the terminator.
C1_SizeAndTerminator ==
    /\ s.cap = Cap
    /\ s.size_ \in 0..s.cap
    /\ DOMAIN s.data_ = 0..s.cap
    /\ s.data_[s.size_] = NUL

\* C1 witness: an insert into a non-empty buffer that had less room than
\* the units to insert and filled it.
C1_Witness ==
    /\ op.name = "insert"
    /\ pre.size_ > 0
    /\ op.pos < pre.size_
    /\ op.n > pre.cap - pre.size_
    /\ s.size_ = s.cap
    /\ pre.size_ < pre.cap

\* C2: an appending call asked to append X units to a buffer with
\* available() = A < X appends exactly the first A of them behind the
\* unchanged previous content and leaves the buffer full; with A = 0 the
\* buffer is unchanged.
C2_AppendTruncation ==
    (/\ op.name \in AppendOps
     /\ ~op.str.null \/ op.name \notin {"append", "append(ptr)", "+=ptr"}
     /\ Len(Requested) > pre.cap - pre.size_)
    => /\ Content(s) = Content(pre) \o SubSeq(Requested, 1, pre.cap - pre.size_)
       /\ s.size_ = s.cap
       /\ (pre.size_ = pre.cap => Content(s) = Content(pre))

\* C2 witness: append(str, len) on a basic_fstring that was neither empty
\* nor full, with more units than there was room for.
C2_Witness ==
    /\ op.name = "append"
    /\ s.cls = "fstring"
    /\ ~op.str.null
    /\ pre.size_ > 0
    /\ pre.size_ < pre.cap
    /\ op.n > pre.cap - pre.size_
    /\ s.size_ = s.cap

\* C3: push_back(ch) on a full buffer changes nothing and reports failure;
\* on a buffer with room it appends exactly ch and reports success.
C3_PushBackReports ==
    op.name = "push_back" =>
        IF pre.size_ = pre.cap
        THEN s = pre /\ ret = RBool(FALSE)
        ELSE /\ Content(s) = Append(Content(pre), op.ch)
             /\ ret = RBool(TRUE)

\* C4: append(src, n) with a source returns the number of units copied,
\* min(n, available()) as measured before the call.
C4_AppendReturnsCount ==
    (op.name = "append" /\ ~op.str.null) =>
        /\ s.size_ - pre.size_ = Min(op.n, pre.cap - pre.size_)
        /\ ret = RCount(Min(op.n, pre.cap - pre.size_))

\* C5: at(pos) raises out_of_range exactly when pos >= size() and otherwise
\* returns the unit at pos, the buffer is unchanged by it, and no other
\* operation raises.
C5_CheckedAccess ==
    /\ op.name = "at" =>
          /\ s = pre
          /\ IF op.pos >= pre.size_ THEN ret = RThrow
             ELSE ret = RUnit(Content(pre)[op.pos + 1])
    /\ op.name # "at" => ret.kind # "out_of_range"

\* C5 witness: at(size()) on a non-empty buffer raised.
C5_Witness ==
    /\ op.name = "at"
    /\ s.size_ > 0
    /\ op.pos = s.size_
    /\ ret = RThrow

\* The right operand of the comparison: a newly constructed buffer of the
\* same capacity holding the text of op.str.
OtherOperand == fstring_from_literal(Cap, op.str)

\* C6: two basic_fstring of the same capacity compare equal with operator==
\* exactly when their lengths and their first size() units agree, whatever
\* units the operations before left behind the terminator.
C6_EqualityIsContent ==
    op.name = "==" =>
        (ret = RBool(TRUE)
            <=> (pre.size_ = OtherOperand.size_ /\ Content(pre) = Content(OtherOperand)))

\* C6 witness: a buffer that holds units of earlier content behind its
\* terminator compared equal to a newly constructed one.
C6_Witness ==
    /\ op.name = "=="
    /\ ret = RBool(TRUE)
    /\ s.size_ > 0
    /\ s.data_ # OtherOperand.data_

\* C7: s += literal appends the literal's characters without its terminator,
\* as many as fit, and s + literal is the content of s followed by the
\* literal's characters.
C7_LiteralAppend ==
    LET text == SubSeq(op.str.arr, 1, Len(op.str.arr) - 1)
        k    == Min(Len(text), pre.cap - pre.size_)
    IN  /\ op.name = "+=literal" =>
              /\ s.size_ = pre.size_ + k
              /\ Content(s) = Content(pre) \o SubSeq(text, 1, k)
        /\ op.name = "+literal" => Content(out) = Content(pre) \o text

\* The maximal non-empty runs of units other than d in seq, as <<first, last>>
\* index pairs.
Runs(seq, d) ==
    {<<i, j>> \in (1..Len(seq)) \X (1..Len(seq)) :
        /\ i <= j
        /\ \A k \in i..j : seq[k] # d
        /\ i = 1 \/ seq[i - 1] = d
        /\ j = Len(seq) \/ seq[j + 1] = d}

\* The tokens of seq for the delimiter d, left to right.
Tokens(seq, d) ==
    LET R == Runs(seq, d)
        nth(k) == CHOOSE r \in R : Cardinality({q \in R : q[1] < r[1]}) = k - 1
    IN  [k \in 1..Cardinality(R) |-> SubSeq(seq, nth(k)[1], nth(k)[2])]

\* seq has no leading, trailing or consecutive delimiter d.
NoEmptyField(seq, d) ==
    \/ seq = <<>>
    \/ /\ seq[1] # d
       /\ seq[Len(seq)] # d
       /\ \A i \in 1..(Len(seq) - 1) : ~(seq[i] = d /\ seq[i + 1] = d)

\* C8: split(str, delim) of a string with at most MaxParts tokens returns
\* exactly its tokens, the maximal non-empty runs of non-delimiter units,
\* left to right; no part is empty.
C8_SplitIsTokens ==
    LET tok == Tokens(Content(s), op.delim)
    IN  (op.name = "split" /\ Len(tok) <= MaxParts) =>
            /\ res.count = Len(tok)
            /\ \A k \in 0..(res.count - 1) :
                  /\ Content(res.parts[k]) = tok[k + 1]
                  /\ res.parts[k].size_ > 0

\* C8 witness: a split of a string with two consecutive delimiters and a
\* leading or trailing one that returned two parts.
C8_Witness ==
    /\ op.name = "split"
    /\ res.count = 2
    /\ s.size_ >= 5
    /\ s.data_[0] = op.delim \/ s.data_[s.size_ - 1] = op.delim
    /\ \E i \in 1..(s.size_ - 2) : s.data_[i] = op.delim /\ s.data_[i + 1] = op.delim

\* C9: every split result has 0 <= count <= MaxParts, and split(str, delim)
\* of a string with more than MaxParts tokens returns count = MaxParts with
\* parts[0..MaxParts) the first MaxParts tokens, complete and in order.
C9_SplitBounded ==
    LET tok == Tokens(Content(s), op.delim)
    IN  /\ op.name \in {"split", "split_by", "join"} => res.count \in 0..MaxParts
        /\ (op.name = "split" /\ Len(tok) > MaxParts) =>
              /\ res.count = MaxParts
              /\ \A k \in 0..(MaxParts - 1) : Content(res.parts[k]) = tok[k + 1]

\* C9 witness: a split of a string with more than MaxParts tokens.
C9_Witness ==
    /\ op.name = "split"
    /\ Len(Tokens(Content(s), op.delim)) > MaxParts
    /\ res.count = MaxParts

\* C10: for a string with no leading, trailing or consecutive delimiter d and
\* at most MaxParts tokens, join(split(s, d), d) has exactly the content of s.
C10_SplitJoinRoundTrip ==
    (/\ op.name = "join"
     /\ op.ch = op.delim
     /\ NoEmptyField(Content(s), op.delim)
     /\ Len(Tokens(Content(s), op.delim)) <= MaxParts)
    => /\ Content(out) = Content(s)
       /\ out.size_ = s.size_

\* C10 witness: a round trip through MaxParts parts, the delimiter between
\* them.
C10_Witness ==
    /\ op.name = "join"
    /\ op.ch = op.delim
    /\ NoEmptyField(Content(s), op.delim)
    /\ res.count = MaxParts
    /\ MaxParts >= 2
    /\ \E i \in 1..(s.size_ - 2) : s.data_[i] = op.delim
    /\ Content(out) = Content(s)

\* ------------------------------------------------- zuu::str find and count

\* basic_fstring::find(CharT ch, size_type pos): the scan from index i.
RECURSIVE find_ch_loop(_, _, _)
find_ch_loop(b, ch, i) ==
    IF i < b.size_
    THEN IF b.data_[i] = ch THEN i ELSE find_ch_loop(b, ch, i + 1)
    ELSE npos

\* basic_fstring::find(CharT ch, size_type pos)
find_ch(b, ch, pos) == find_ch_loop(b, ch, pos)

\* find_fn::operator()(str, substr, pos)
str_find(str, substr, pos) == find(str, substr, pos)

\* find_fn::operator()(str, ch, pos)
str_find_ch(str, ch, pos) == find_ch(str, ch, pos)

\* Mutant: the scan resumes one unit after the start of the match.
count_resume_next_unit(found, substr_len) == found + 1

\* pos = found + substr_len
count_resume(found, substr_len) == found + substr_len

\* The while loop of count_fn::operator()(str, substr), from position pos.
RECURSIVE count_loop(_, _, _, _, _)
count_loop(str, substr, substr_len, pos, cnt) ==
    IF pos < str.size_
    THEN LET found == find(str, substr, pos)
         IN  IF found = npos THEN cnt
             ELSE count_loop(str, substr, substr_len,
                             count_resume(found, substr_len), cnt + 1)
    ELSE cnt

\* count_fn::operator()(str, const CharT* substr)
count(str, substr) ==
    IF substr.null THEN 0
    ELSE LET substr_len == c_strlen(substr.arr, 0)
         IN  IF substr_len = 0 THEN 0
             ELSE count_loop(str, substr, substr_len, 0, 0)

\* The for loop of count_fn::operator()(str, CharT ch), from index i.
RECURSIVE count_ch_loop(_, _, _, _)
count_ch_loop(str, ch, i, cnt) ==
    IF i < str.size_
    THEN count_ch_loop(str, ch, i + 1, IF str.data_[i] = ch THEN cnt + 1 ELSE cnt)
    ELSE cnt

\* count_fn::operator()(str, CharT ch)
count_ch(str, ch) == count_ch_loop(str, ch, 0, 0)

\* Substring arguments: C strings of up to DelimCap units, and the null
\* pointer.
Needles == {Lit(x) : x \in SeqsUpTo(TextUnits, DelimCap)} \cup {NullPtr}

\* A call of a function that reads s and returns the number n.
Query(o, n) ==
    /\ Idle
    /\ pre' = s
    /\ ret' = RCount(n)
    /\ op' = o
    /\ out' = NoBuf
    /\ res' = NoRes
    /\ UNCHANGED s

\* ret = count(s, substr)
Count ==
    \E x \in Needles : Query(Op("count", x, 0, NUL, 0), count(s, x))

\* ret = count(s, ch)
CountCh ==
    \E ch \in Units : Query(Op("count(ch)", NullPtr, 0, ch, 0), count_ch(s, ch))

\* ret = find(s, substr, pos)
Find ==
    \E x \in Needles, pos \in 0..(s.size_ + 1) :
        Query(Op("find", x, 0, NUL, pos), str_find(s, x, pos))

\* ret = find(s, ch, pos)
FindCh ==
    \E ch \in Units, pos \in 0..(s.size_ + 1) :
        Query(Op("find(ch)", NullPtr, 0, ch, pos), str_find_ch(s, ch, pos))

InitFind ==
    /\ s \in SplitInputs
    /\ pre = s
    /\ op = Op("idle", NullPtr, 0, NUL, 0)
    /\ ret = RVoid
    /\ out = NoBuf
    /\ res = NoRes

NextFind == Count \/ CountCh \/ Find \/ FindCh \/ Return

SpecFind == InitFind /\ [][NextFind]_vars

\* The text of the substring argument of the last call.
Needle == SubSeq(op.str.arr, 1, Len(op.str.arr) - 1)

\* sub occurs in seq at the 0-based index i, entirely inside seq.
OccursAt(seq, sub, i) ==
    /\ i >= 0
    /\ i + Len(sub) <= Len(seq)
    /\ \A j \in 1..Len(sub) : seq[i + j] = sub[j]

\* The 0-based indices at which sub occurs in seq.
Occurrences(seq, sub) == {i \in 0..Len(seq) : OccursAt(seq, sub, i)}

\* P holds no two overlapping occurrences of a substring of length n.
Disjoint(P, n) == \A i \in P, j \in P : i < j => i + n <= j

\* The occurrences a left-to-right scan takes: each is the first occurrence
\* that starts at or after the end of the one taken before it.
Scanned(seq, sub) ==
    CHOOSE P \in SUBSET Occurrences(seq, sub) :
        /\ Disjoint(P, Len(sub))
        /\ \A i \in Occurrences(seq, sub) \ P :
              \E j \in P : j < i /\ i < j + Len(sub)

\* C11: count(str, substr) with a non-empty substr is the number of
\* occurrences a left-to-right scan finds when it resumes right behind each
\* match; no set of non-overlapping occurrences is larger.
C11_CountNonOverlapping ==
    (op.name = "count" /\ ~op.str.null /\ Len(Needle) > 0) =>
        /\ ret = RCount(Cardinality(Scanned(Content(s), Needle)))
        /\ \A P \in SUBSET Occurrences(Content(s), Needle) :
              Disjoint(P, Len(Needle)) => Cardinality(P) <= ret.val

\* C11 witness: "aaaa" holds "aa" twice, though it occurs at three indices.
C11_Witness ==
    /\ op.name = "count"
    /\ Needle = <<LA, LA>>
    /\ Content(s) = <<LA, LA, LA, LA>>
    /\ Cardinality(Occurrences(Content(s), Needle)) = 3
    /\ ret = RCount(2)

\* C12: find(substr, pos) with a non-empty substr returns the smallest index
\* i >= pos at which substr occurs entirely inside the content, npos when
\* there is none; find(ch, pos) returns the smallest i >= pos whose unit is
\* ch, else npos.
C12_FindFirst ==
    /\ (op.name = "find" /\ ~op.str.null /\ Len(Needle) > 0) =>
          LET from == {i \in Occurrences(Content(s), Needle) : i >= op.pos}
          IN  IF from = {} THEN ret = RCount(npos)
              ELSE /\ ret.val \in from
                   /\ \A i \in from : ret.val <= i
    /\ op.name = "find(ch)" =>
          LET from == {i \in op.pos..(s.size_ - 1) : s.data_[i] = op.ch}
          IN  IF from = {} THEN ret = RCount(npos)
              ELSE /\ ret.val \in from
                   /\ \A i \in from : ret.val <= i

\* C12 witness: a find from pos > 0 that skipped an earlier occurrence and
\* returned the last possible start of a two-unit substring.
C12_Witness ==
    /\ op.name = "find"
    /\ Len(Needle) = 2
    /\ op.pos > 0
    /\ OccursAt(Content(s), Needle, 0)
    /\ ret = RCount(s.size_ - 2)
    /\ ret.val > op.pos

\* ------------------------------------------------ zuu::fmt integer formats

\* Width in bits of the integer type T under test.
IntBits == 8

\* '0'
D0 == 48

\* '9'
D9 == 57

\* '-'
MINUS == 45

\* '+'
PLUS == 43

\* 'x' of "0x"
LX == 120

\* 'b' of "0b"
LB == 98

\* 'A'
UA == 65

\* 'Z'
UZ == 90

\* 'z'
LZ == 122

\* max_size of formatter<pad_left_proxy<T>>::format
PadCap == 64

\* The integer types T: signed or unsigned; a signed type is either narrower
\* than int (promotes: its arithmetic is done in int and converted back) or
\* of the rank of int or above (its arithmetic overflows).
IntTypes ==
    {[signed |-> TRUE, promotes |-> TRUE],
     [signed |-> TRUE, promotes |-> FALSE],
     [signed |-> FALSE, promotes |-> FALSE]}

\* std::numeric_limits<T>::min()
int_min(ty) == IF ty.signed THEN -(2 ^ (IntBits - 1)) ELSE 0

\* std::numeric_limits<T>::max()
int_max(ty) == IF ty.signed THEN 2 ^ (IntBits - 1) - 1 ELSE 2 ^ IntBits - 1

\* The values of T.
IntValues(ty) == int_min(ty)..int_max(ty)

\* static_cast<UIntT>(v): the value modulo 2^IntBits.
to_unsigned(v) == v % (2 ^ IntBits)

\* Conversion of an int to the signed T: modulo 2^IntBits.
to_signed(v) ==
    LET u == v % (2 ^ IntBits)
    IN  IF u >= 2 ^ (IntBits - 1) THEN u - 2 ^ IntBits ELSE u

\* sizeof(T)
size_of == (IntBits + 7) \div 8

\* std::numeric_limits<T>::digits10: the largest k with 10^k <= 2^digits.
digits10(ty) ==
    LET digits == IF ty.signed THEN IntBits - 1 ELSE IntBits
    IN  CHOOSE k \in 0..IntBits : 10 ^ k <= 2 ^ digits /\ 10 ^ (k + 1) > 2 ^ digits

\* max_digits of formatter<T>::format
max_digits(ty) == digits10(ty) + 3

\* while (uvalue > 0) { buffer[pos++] = '0' + uvalue % 10; uvalue /= 10; }
RECURSIVE format_digits(_, _)
format_digits(uvalue, buffer) ==
    IF uvalue > 0
    THEN format_digits(uvalue \div 10, Append(buffer, D0 + (uvalue % 10)))
    ELSE buffer

\* while (pos > 0) result.push_back(buffer[--pos]);
RECURSIVE emit_reversed(_, _, _)
emit_reversed(result, buffer, pos) ==
    IF pos > 0
    THEN emit_reversed(push_back(result, buffer[pos]).buf, buffer, pos - 1)
    ELSE result

\* The magnitude of value as UIntT: static_cast<UIntT>(-(value + 1)) + 1 for a
\* negative value.
format_uvalue(ty, value) ==
    IF ty.signed /\ value < 0
    THEN to_unsigned(to_unsigned(-(value + 1)) + 1)
    ELSE to_unsigned(value)

\* formatter<T>::format(value), T integral
format_integral(ty, value) ==
    LET result == fstring_default(max_digits(ty))
    IN  IF value = 0 THEN push_back(result, D0).buf
        ELSE LET negative == ty.signed /\ value < 0
                 buffer   == format_digits(format_uvalue(ty, value), <<>>)
                 r1       == IF negative THEN push_back(result, MINUS).buf ELSE result
             IN  emit_reversed(r1, buffer, Len(buffer))

\* The do-while loop of formatter<hex_proxy<T>>::format
RECURSIVE hex_digits(_, _, _)
hex_digits(uvalue, uppercase, buffer) ==
    LET digit == uvalue % 16
        base  == IF uppercase THEN UA ELSE LA
        unit  == IF digit < 10 THEN D0 + digit ELSE base + (digit - 10)
        b1    == Append(buffer, unit)
    IN  IF uvalue \div 16 > 0 THEN hex_digits(uvalue \div 16, uppercase, b1) ELSE b1

\* Mutant: the capacity has no room for the "0x" marker.
hex_max_size_digits_only == size_of * 2 + 1

\* max_size of formatter<hex_proxy<T>>::format
hex_max_size == size_of * 2 + 3

\* formatter<hex_proxy<T>>::format(proxy)
format_hex_proxy(value, uppercase) ==
    LET result == append(fstring_default(hex_max_size), Lit(<<D0, LX>>), 2).buf
        buffer == hex_digits(to_unsigned(value), uppercase, <<>>)
    IN  emit_reversed(result, buffer, Len(buffer))

\* The do-while loop of formatter<bin_proxy<T>>::format
RECURSIVE bin_digits(_, _)
bin_digits(uvalue, buffer) ==
    LET b1 == Append(buffer, D0 + (uvalue % 2))
    IN  IF uvalue \div 2 > 0 THEN bin_digits(uvalue \div 2, b1) ELSE b1

\* max_size of formatter<bin_proxy<T>>::format
bin_max_size == size_of * 8 + 3

\* formatter<bin_proxy<T>>::format(proxy)
format_bin_proxy(value) ==
    LET result == append(fstring_default(bin_max_size), Lit(<<D0, LB>>), 2).buf
        buffer == bin_digits(to_unsigned(value), <<>>)
    IN  emit_reversed(result, buffer, Len(buffer))

\* Mutant: the whole width is filled, whatever the length of the number.
pad_count_whole_width(size, width) == width

\* proxy.width - base_str.size()
pad_count(size, width) == width - size

\* formatter<pad_left_proxy<T>>::format(proxy)
format_pad_left_proxy(ty, value, width, fill) ==
    LET base_str == format_integral(ty, value)
        result   == fstring_default(PadCap)
        r1       == IF base_str.size_ < width
                    THEN append_fill(result, pad_count(base_str.size_, width), fill).buf
                    ELSE result
    IN  append(r1, data(base_str), base_str.size_).buf

\* The digit value of a unit in parse_int, -1 when it is no digit.
parse_digit(ch) ==
    IF ch >= D0 /\ ch <= D9 THEN ch - D0
    ELSE IF ch >= LA /\ ch <= LZ THEN 10 + (ch - LA)
    ELSE IF ch >= UA /\ ch <= UZ THEN 10 + (ch - UA)
    ELSE -1

\* result = result * base + digit in IntT.  ub: the signed arithmetic
\* overflowed, the behaviour is undefined.
parse_accumulate(ty, result, base, digit) ==
    LET x == result * base + digit
    IN  IF ~ty.signed THEN [ub |-> FALSE, val |-> to_unsigned(x)]
        ELSE IF ty.promotes THEN [ub |-> FALSE, val |-> to_signed(x)]
        ELSE IF x > int_max(ty) \/ x < int_min(ty) THEN [ub |-> TRUE, val |-> 0]
        ELSE [ub |-> FALSE, val |-> x]

\* The for loop of parse_int, from index i.
RECURSIVE parse_loop(_, _, _, _, _)
parse_loop(ty, str, base, i, result) ==
    IF i < str.size_
    THEN LET digit == parse_digit(str.data_[i])
         IN  IF digit < 0 \/ digit >= base THEN [ub |-> FALSE, val |-> result]
             ELSE LET r == parse_accumulate(ty, result, base, digit)
                  IN  IF r.ub THEN r ELSE parse_loop(ty, str, base, i + 1, r.val)
    ELSE [ub |-> FALSE, val |-> result]

\* negative ? -result : result
parse_negate(ty, negative, result) ==
    IF ~negative THEN [ub |-> FALSE, val |-> result]
    ELSE IF ty.promotes THEN [ub |-> FALSE, val |-> to_signed(-result)]
    ELSE IF result = int_min(ty) THEN [ub |-> TRUE, val |-> 0]
    ELSE [ub |-> FALSE, val |-> -result]

\* parse_int<IntT>(str, base)
parse_int(ty, str, base) ==
    IF empty(str) THEN [ub |-> FALSE, val |-> 0]
    ELSE LET negative == ty.signed /\ str.data_[0] = MINUS
             i0       == IF ty.signed /\ str.data_[0] \in {MINUS, PLUS} THEN 1 ELSE 0
             r        == parse_loop(ty, str, base, i0, 0)
         IN  IF r.ub THEN r ELSE parse_negate(ty, negative, r.val)

\* The last formatting or parsing call: its value n of type ty, and width,
\* fill and uppercase flag where the call has them.
NumOp(name, ty, n, width, fill, upper) ==
    [name |-> name, str |-> NullPtr, n |-> n, ch |-> fill, pos |-> width,
     delim |-> NUL, ty |-> ty, upper |-> upper]

\* A formatting call: out is the text returned.
Format(o, b) ==
    /\ Idle
    /\ op' = o
    /\ out' = b
    /\ ret' = RObject
    /\ UNCHANGED <<s, pre, res>>

\* out = to_fstring(n)
ToFString ==
    \E ty \in IntTypes : \E n \in IntValues(ty) :
        Format(NumOp("to_fstring", ty, n, 0, NUL, FALSE), format_integral(ty, n))

\* ret = parse_int<T>(out), out the text to_fstring(n) just returned.  An
\* undefined signed overflow leaves any value of T.
ParseInt ==
    /\ op.name = "to_fstring"
    /\ LET r == parse_int(op.ty, out, 10)
       IN  IF r.ub THEN \E v \in IntValues(op.ty) : ret' = RCount(v)
           ELSE ret' = RCount(r.val)
    /\ op' = [op EXCEPT !.name = "parse_int"]
    /\ UNCHANGED <<s, pre, out, res>>

\* out = to_fstring(hex(n, uppercase))
ToFStringHex ==
    \E ty \in IntTypes : \E n \in IntValues(ty), upper \in BOOLEAN :
        Format(NumOp("hex", ty, n, 0, NUL, upper), format_hex_proxy(n, upper))

\* out = to_fstring(bin(n))
ToFStringBin ==
    \E ty \in IntTypes : \E n \in IntValues(ty) :
        Format(NumOp("bin", ty, n, 0, NUL, FALSE), format_bin_proxy(n))

\* Widths handed to pad_left: small ones and those around the capacity of the
\* result.
Widths == (0..5) \cup ((PadCap - 1)..(PadCap + 1))

\* Values handed to pad_left: the extremes of T and the values around the
\* changes of the number of digits.
PadValues(ty) ==
    IntValues(ty) \cap ({int_min(ty), int_max(ty)} \cup (-11..11) \cup {-100, -99, 99, 100})

\* out = to_fstring(pad_left(n, width, fill))
ToFStringPadLeft ==
    \E ty \in IntTypes : \E n \in PadValues(ty), w \in Widths, f \in {D0, SP} :
        Format(NumOp("pad_left", ty, n, w, f, FALSE), format_pad_left_proxy(ty, n, w, f))

InitNum ==
    /\ s = NoBuf
    /\ pre = NoBuf
    /\ op = Op("idle", NullPtr, 0, NUL, 0)
    /\ ret = RVoid
    /\ out = NoBuf
    /\ res = NoRes

NextNum ==
    ToFString \/ ParseInt \/ ToFStringHex \/ ToFStringBin \/ ToFStringPadLeft \/ Return

SpecNum == InitNum /\ [][NextNum]_vars

\* Number of base-b digits of the natural number u, without leading zeros.
NumDigits(u, b) ==
    CHOOSE k \in 1..(IntBits + 1) : u < b ^ k /\ (k = 1 \/ u >= b ^ (k - 1))

\* The base-b digit values of u, most significant first.
DigitsOf(u, b) ==
    [j \in 1..NumDigits(u, b) |-> (u \div (b ^ (NumDigits(u, b) - j))) % b]

\* The unit that writes the digit value d.
DigitUnit(d, upper) ==
    IF d < 10 THEN D0 + d ELSE (IF upper THEN UA ELSE LA) + (d - 10)

\* The text of u in base b.
Numeral(u, b, upper) ==
    [j \in 1..NumDigits(u, b) |-> DigitUnit(DigitsOf(u, b)[j], upper)]

\* The decimal text of the integer n.
Decimal(n) ==
    IF n < 0 THEN <<MINUS>> \o Numeral(-n, 10, FALSE) ELSE Numeral(n, 10, FALSE)

\* C13: parse_int<T>(to_fstring(n)) = n for every value n of every integer
\* type T, the minimum of a signed type included, and to_fstring(n) is the
\* whole decimal text of n.
C13_NumericRoundTrip ==
    /\ op.name \in {"to_fstring", "parse_int"} => Content(out) = Decimal(op.n)
    /\ op.name = "parse_int" => ret = RCount(op.n)

\* C14: to_fstring(hex(v)) is "0x" and the shortest base-16 numeral of v
\* taken as an unsigned value of its width, with a-f or, when the flag is
\* set, A-F; to_fstring(bin(v)) is "0b" and its shortest base-2 numeral; the
\* capacity of the result cuts no digit.
C14_HexBinText ==
    /\ op.name = "hex" =>
          Content(out) = <<D0, LX>> \o Numeral(op.n % (2 ^ IntBits), 16, op.upper)
    /\ op.name = "bin" =>
          Content(out) = <<D0, LB>> \o Numeral(op.n % (2 ^ IntBits), 2, FALSE)

\* C14 witness: hex of -1 with the uppercase flag: as many F as the width
\* has hex digits.
C14_Witness ==
    /\ op.name = "hex"
    /\ op.n = -1
    /\ op.upper
    /\ out.size_ = 2 + (IntBits + 3) \div 4
    /\ \A i \in 2..(out.size_ - 1) : out.data_[i] = UA + 5

\* C15: when neither the width w nor the decimal text d of v is longer than
\* the 64 units of the result, to_fstring(pad_left(v, w, f)) is w - len(d)
\* copies of f (none when w <= len(d)) followed by d.
C15_PadLeftText ==
    LET d == Decimal(op.n)
        k == IF op.pos > Len(d) THEN op.pos - Len(d) ELSE 0
    IN  (op.name = "pad_left" /\ op.pos <= PadCap /\ Len(d) <= PadCap) =>
            /\ Content(out) = [i \in 1..k |-> op.ch] \o d
            /\ out.size_ = IF op.pos > Len(d) THEN op.pos ELSE Len(d)

\* C15 witness: a negative number padded to the full 64 units.
C15_Witness ==
    /\ op.name = "pad_left"
    /\ op.n < 0
    /\ op.pos = PadCap
    /\ out.size_ = PadCap
    /\ out.data_[0] = op.ch
    /\ out.data_[PadCap - 1] # op.ch

\* ------------------------------------------------ zuu::str trim and case

\* Longest input text of the trim and case functions, and the capacity of
\* the buffers they are called on.
TextLen == 3

TAB == 9

LF == 10

VT == 11

FF == 12

CR == 13

\* The units next to the two letter ranges.
BelowUA == UA - 1

AboveUZ == UZ + 1

BelowLA == LA - 1

AboveLZ == LZ + 1

\* Units of the input texts: the six whitespace units, the ends of both
\* letter ranges, their neighbours, and a digit.
CaseUnits ==
    {SP, TAB, LF, CR, FF, VT, LA, LZ, UA, UZ, BelowUA, AboveUZ, BelowLA, AboveLZ, D0}

\* std::basic_string_view::substr(pos, count)
sv_substr(sv, pos, len) ==
    LET rlen == IF len = npos THEN Len(sv) - pos ELSE Min(len, Len(sv) - pos)
    IN  SubSeq(sv, pos + 1, pos + rlen)

\* Mutant: the vertical tab is not whitespace.
str_is_space_no_vt(ch) == ch \in {SP, TAB, LF, CR, FF}

\* is_space of trim.hpp
str_is_space(ch) == ch \in {SP, TAB, LF, CR, FF, VT}

RECURSIVE first_non_space_loop(_, _)
first_non_space_loop(sv, i) ==
    IF i < Len(sv)
    THEN IF ~str_is_space(sv[i + 1]) THEN i ELSE first_non_space_loop(sv, i + 1)
    ELSE Len(sv)

find_first_non_space(sv) == first_non_space_loop(sv, 0)

RECURSIVE last_non_space_loop(_, _)
last_non_space_loop(sv, i) ==
    IF i > 0
    THEN IF ~str_is_space(sv[i]) THEN i ELSE last_non_space_loop(sv, i - 1)
    ELSE 0

find_last_non_space(sv) == last_non_space_loop(sv, Len(sv))

\* trim_left(str), str a basic_fstring<Cap>
trim_left(str) ==
    LET sv      == to_string_view(str)
        start   == find_first_non_space(sv)
        result  == fstring_default(str.cap)
        trimmed == sv_substr(sv, start, npos)
    IN  IF start < Len(sv)
        THEN append(result, Ptr(trimmed), Len(trimmed)).buf
        ELSE result

\* trim_right(str), str a basic_fstring<Cap>
trim_right(str) ==
    LET sv      == to_string_view(str)
        end     == find_last_non_space(sv)
        result  == fstring_default(str.cap)
        trimmed == sv_substr(sv, 0, end)
    IN  IF end > 0
        THEN append(result, Ptr(trimmed), Len(trimmed)).buf
        ELSE result

\* trim(str), str a basic_fstring<Cap>
trim(str) ==
    LET sv      == to_string_view(str)
        start   == find_first_non_space(sv)
        end     == find_last_non_space(sv)
        result  == fstring_default(str.cap)
        trimmed == sv_substr(sv, start, end - start)
    IN  IF start < end
        THEN append(result, Ptr(trimmed), Len(trimmed)).buf
        ELSE result

char_to_lower(ch) == IF ch >= UA /\ ch <= UZ THEN ch + (LA - UA) ELSE ch

\* Mutant: the first lower-case letter is left as it is.
char_to_upper_open(ch) == IF ch > LA /\ ch <= LZ THEN ch - (LA - UA) ELSE ch

char_to_upper(ch) == IF ch >= LA /\ ch <= LZ THEN ch - (LA - UA) ELSE ch

is_alpha(ch) == (ch >= LA /\ ch <= LZ) \/ (ch >= UA /\ ch <= UZ)

\* is_whitespace of case.hpp
is_whitespace(ch) == ch \in {SP, TAB, LF, CR}

RECURSIVE to_lower_loop(_, _, _)
to_lower_loop(str, i, result) ==
    IF i < str.size_
    THEN to_lower_loop(str, i + 1, push_back(result, char_to_lower(str.data_[i])).buf)
    ELSE result

\* to_lower(str), str a basic_fstring<Cap>
to_lower(str) == to_lower_loop(str, 0, fstring_default(str.cap))

RECURSIVE to_upper_loop(_, _, _)
to_upper_loop(str, i, result) ==
    IF i < str.size_
    THEN to_upper_loop(str, i + 1, push_back(result, char_to_upper(str.data_[i])).buf)
    ELSE result

\* to_upper(str), str a basic_fstring<Cap>
to_upper(str) == to_upper_loop(str, 0, fstring_default(str.cap))

RECURSIVE to_title_loop(_, _, _, _)
to_title_loop(str, i, result, capitalize_next) ==
    IF i < str.size_
    THEN LET ch == str.data_[i]
         IN  IF is_whitespace(ch)
             THEN to_title_loop(str, i + 1, push_back(result, ch).buf, TRUE)
             ELSE IF is_alpha(ch)
             THEN to_title_loop(str, i + 1,
                      push_back(result, IF capitalize_next THEN char_to_upper(ch)
                                        ELSE char_to_lower(ch)).buf,
                      FALSE)
             ELSE to_title_loop(str, i + 1, push_back(result, ch).buf, FALSE)
    ELSE result

\* to_title(str), str a basic_fstring<Cap>
to_title(str) == to_title_loop(str, 0, fstring_default(str.cap), TRUE)

RECURSIVE toggle_case_loop(_, _, _)
toggle_case_loop(str, i, result) ==
    IF i < str.size_
    THEN LET ch == str.data_[i]
             t  == IF ch >= LA /\ ch <= LZ THEN char_to_upper(ch)
                   ELSE IF ch >= UA /\ ch <= UZ THEN char_to_lower(ch)
                   ELSE ch
         IN  toggle_case_loop(str, i + 1, push_back(result, t).buf)
    ELSE result

\* toggle_case(str), str a basic_fstring<Cap>
toggle_case(str) == toggle_case_loop(str, 0, fstring_default(str.cap))

\* Input strings of the trim and case functions: basic_fstring<TextLen>.
TextInputs ==
    {fstring_from_ptr_len(TextLen, Ptr(a), Len(a)) : a \in SeqsUpTo(CaseUnits, TextLen)}

\* out = trim(s)
Trim == Produce(Op("trim", NullPtr, 0, NUL, 0), trim(s))

\* out = trim_left(s)
TrimLeft == Produce(Op("trim_left", NullPtr, 0, NUL, 0), trim_left(s))

\* out = trim_right(s)
TrimRight == Produce(Op("trim_right", NullPtr, 0, NUL, 0), trim_right(s))

\* out = to_lower(s)
ToLower == Produce(Op("to_lower", NullPtr, 0, NUL, 0), to_lower(s))

\* out = to_upper(s)
ToUpper == Produce(Op("to_upper", NullPtr, 0, NUL, 0), to_upper(s))

\* out = to_title(s)
ToTitle == Produce(Op("to_title", NullPtr, 0, NUL, 0), to_title(s))

\* out = toggle_case(s)
ToggleCase == Produce(Op("toggle_case", NullPtr, 0, NUL, 0), toggle_case(s))

InitText ==
    /\ s \in TextInputs
    /\ pre = s
    /\ op = Op("idle", NullPtr, 0, NUL, 0)
    /\ ret = RVoid
    /\ out = NoBuf
    /\ res = NoRes

NextText ==
    Trim \/ TrimLeft \/ TrimRight \/ ToLower \/ ToUpper \/ ToTitle \/ ToggleCase
    \/ Return

SpecText == InitText /\ [][NextText]_vars

\* The six whitespace units the specification names.
Whitespace == {SP, TAB, LF, CR, FF, VT}

\* Positions of the units of a text that are not whitespace.
Inked(text) == {i \in 1..Len(text) : text[i] \notin Whitespace}

\* The least and the greatest element of a non-empty set of numbers.
Least(S) == CHOOSE x \in S : \A y \in S : x <= y

Greatest(S) == CHOOSE x \in S : \A y \in S : x >= y

\* The span of a text from its first to its last non-whitespace unit, or from
\* its start, or to its end.
Span(text, from_first, to_last) ==
    IF Inked(text) = {} THEN <<>>
    ELSE SubSeq(text,
                IF from_first THEN Least(Inked(text)) ELSE 1,
                IF to_last THEN Greatest(Inked(text)) ELSE Len(text))

\* C16: trim, trim_left and trim_right return, in a new buffer of the
\* capacity of the source, the source's text from its first non-whitespace
\* unit (trim, trim_left) to its last one (trim, trim_right), empty when the
\* source is empty or all whitespace; whitespace is the six units space, tab,
\* LF, CR, FF and VT; the source is left as it was.
C16_TrimSpan ==
    op.name \in {"trim", "trim_left", "trim_right"} =>
        /\ out.cap = pre.cap
        /\ Content(out) = Span(Content(pre), op.name # "trim_right",
                               op.name # "trim_left")
        /\ out.data_[out.size_] = NUL
        /\ s = pre

\* C16 witness: trim has dropped a form feed in front of and a vertical tab
\* behind the text it kept.
C16_Witness ==
    /\ op.name = "trim"
    /\ pre.size_ = TextLen
    /\ pre.data_[0] = FF
    /\ pre.data_[pre.size_ - 1] = VT
    /\ out.size_ = pre.size_ - 2
    /\ out.size_ > 0

\* The alphabetic units to_title is to upper-case: the first alphabetic unit
\* after the start of the text or after a whitespace unit, whatever
\* non-alphabetic, non-whitespace units stand in between.
RECURSIVE TitleFlag(_, _)
TitleFlag(text, i) ==
    IF i = 1 THEN TRUE
    ELSE IF text[i - 1] \in Whitespace THEN TRUE
    ELSE IF is_alpha(text[i - 1]) THEN FALSE
    ELSE TitleFlag(text, i - 1)

\* C17: to_title upper-cases an alphabetic unit exactly when it is the first
\* alphabetic unit after the start of the text or after a run of whitespace,
\* lower-cases every other alphabetic unit and passes the other units
\* through; whitespace is the six units space, tab, LF, CR, FF and VT, and
\* only whitespace sets the capitalize-next flag again while a unit that is
\* neither alphabetic nor whitespace leaves it as it is.
C17_TitleCase ==
    op.name = "to_title" =>
        /\ out.size_ = pre.size_
        /\ \A i \in 1..pre.size_ :
              LET ch == Content(pre)[i]
              IN  Content(out)[i] =
                      IF ~is_alpha(ch) THEN ch
                      ELSE IF TitleFlag(Content(pre), i)
                           THEN (IF ch >= LA THEN ch - (LA - UA) ELSE ch)
                           ELSE (IF ch <= UZ THEN ch + (LA - UA) ELSE ch)

\* The unit of the other case, for a letter; the unit itself otherwise.
Shifted(ch, from_lower, from_upper) ==
    IF from_lower /\ ch \in LA..LZ THEN ch - (LA - UA)
    ELSE IF from_upper /\ ch \in UA..UZ THEN ch + (LA - UA)
    ELSE ch

\* C18: to_upper, to_lower and toggle_case return a buffer of the length and
\* the capacity of the source in which the units of [a-z] (to_upper,
\* toggle_case) and of [A-Z] (to_lower, toggle_case) are shifted to the
\* other case and every other unit is unchanged; to_upper and to_lower
\* applied to their own result change nothing, and toggle_case applied to its
\* result gives the source back.
C18_CaseShift ==
    op.name \in {"to_upper", "to_lower", "toggle_case"} =>
        /\ out.cap = pre.cap
        /\ out.size_ = pre.size_
        /\ \A i \in 1..pre.size_ :
              Content(out)[i] = Shifted(Content(pre)[i], op.name # "to_lower",
                                        op.name # "to_upper")
        /\ op.name = "to_upper" => to_upper(out) = out
        /\ op.name = "to_lower" => to_lower(out) = out
        /\ op.name = "toggle_case" => toggle_case(out) = pre
        /\ s = pre

\* C18 witness: to_upper has shifted both ends of [a-z] and left their
\* neighbours alone.
C18_Witness ==
    /\ op.name = "to_upper"
    /\ \E i, j, k \in 0..(pre.size_ - 1) :
          /\ pre.data_[i] = LA /\ out.data_[i] = UA
          /\ pre.data_[j] = LZ /\ out.data_[j] = UZ
          /\ pre.data_[k] \in {BelowLA, AboveLZ} /\ out.data_[k] = pre.data_[k]

\* ------------------------------------------------ partition and rsplit

\* Mutant: the substring keeps the unit at pos back.
substr_start_after(pos) == pos + 1

\* data_ + pos: the index substr copies from.
substr_start(pos) == pos

\* str.substr<ResultCap>(pos, len); len = npos is the default argument.
substr(str, ResultCap, pos, len) ==
    LET result == fstring_default(ResultCap)
        n      == IF len = npos THEN str.size_ - pos ELSE Min(len, str.size_ - pos)
        from   == SubSeq(data(str).arr, substr_start(pos) + 1, str.cap + 1)
    IN  IF pos >= str.size_ THEN result
        ELSE append(result, Ptr(from), n).buf

\* partition(str, delimiter): partition_fn::operator()
partition(str, delimiter) ==
    LET result == [first  |-> fstring_default(str.cap),
                   second |-> fstring_default(str.cap),
                   found  |-> FALSE]
        pos    == find_ch(str, delimiter, 0)
    IN  IF pos # npos
        THEN [found  |-> TRUE,
              first  |-> substr(str, str.cap, 0, pos),
              second |-> IF pos + 1 < str.size_
                         THEN substr(str, str.cap, pos + 1, npos)
                         ELSE result.second]
        ELSE [result EXCEPT !.first = str]

\* for (j = current.size(); j > 0; --j) reversed.push_back(current[j - 1]);
RECURSIVE reverse_loop(_, _, _)
reverse_loop(current, j, reversed) ==
    IF j > 0
    THEN reverse_loop(current, j - 1, push_back(reversed, current.data_[j - 1]).buf)
    ELSE reversed

\* The first for loop of rsplit_fn::operator(), from index i downwards.
RECURSIVE rsplit_loop(_, _, _, _, _)
rsplit_loop(str, delimiter, i, result, current) ==
    IF i > 0 /\ result.count < MaxParts
    THEN LET ch == str.data_[i - 1]
         IN  IF ch = delimiter
             THEN IF ~empty(current)
                  THEN rsplit_loop(str, delimiter, i - 1,
                           add_part(result,
                                    reverse_loop(current, current.size_,
                                                 fstring_default(str.cap))),
                           clear(current).buf)
                  ELSE rsplit_loop(str, delimiter, i - 1, result, current)
             ELSE rsplit_loop(str, delimiter, i - 1, result,
                              push_back(current, ch).buf)
    ELSE [result |-> result, current |-> current]

\* The last for loop of rsplit_fn::operator(): the stored parts in reverse.
reverse_parts(result) ==
    [result EXCEPT !.parts =
        [k \in 0..(MaxParts - 1) |->
            IF k < result.count THEN result.parts[result.count - 1 - k]
            ELSE result.parts[k]]]

\* rsplit(str, delimiter): rsplit_fn::operator()
rsplit(str, delimiter) ==
    LET r == rsplit_loop(str, delimiter, str.size_, split_result_default(str.cap),
                         fstring_default(str.cap))
    IN  reverse_parts(
            IF ~empty(r.current) /\ r.result.count < MaxParts
            THEN add_part(r.result,
                          reverse_loop(r.current, r.current.size_,
                                       fstring_default(str.cap)))
            ELSE r.result)

\* res = partition(s, d)
Partition ==
    /\ Idle
    /\ \E d \in Units :
          /\ res' = partition(s, d)
          /\ op' = [Op("partition", NullPtr, 0, NUL, 0) EXCEPT !.delim = d]
    /\ pre' = s
    /\ ret' = RObject
    /\ out' = NoBuf
    /\ UNCHANGED s

\* res = rsplit(s, d)
RSplit ==
    /\ Idle
    /\ \E d \in Units :
          /\ res' = rsplit(s, d)
          /\ op' = [Op("rsplit", NullPtr, 0, NUL, 0) EXCEPT !.delim = d]
    /\ pre' = s
    /\ ret' = RObject
    /\ out' = NoBuf
    /\ UNCHANGED s

NextPart == Partition \/ RSplit \/ Return

SpecPart == InitSplit /\ [][NextPart]_vars

\* C19: partition cuts at the first occurrence of the delimiter only.  When
\* the delimiter occurs, found is true, first is the text in front of the
\* first occurrence and holds no delimiter, second is all that follows it,
\* and first, the delimiter and second together are the input; when it does
\* not occur, found is false, first is the whole input and second is empty.
C19_PartitionFirst ==
    op.name = "partition" =>
        LET text == Content(pre)
            hits == {i \in 1..Len(text) : text[i] = op.delim}
        IN  /\ res.found = (hits # {})
            /\ hits # {} =>
                  /\ Content(res.first) = SubSeq(text, 1, Least(hits) - 1)
                  /\ \A i \in 1..res.first.size_ : Content(res.first)[i] # op.delim
                  /\ Content(res.second) = SubSeq(text, Least(hits) + 1, Len(text))
                  /\ Content(res.first) \o <<op.delim>> \o Content(res.second) = text
            /\ hits = {} =>
                  /\ Content(res.first) = text
                  /\ res.second.size_ = 0
            /\ s = pre

\* C19 witness: the delimiter occurs twice with text before, between and
\* after, and the second occurrence has stayed in second.
C19_Witness ==
    /\ op.name = "partition"
    /\ res.found
    /\ res.first.size_ > 0
    /\ \E i \in 1..(res.second.size_ - 1) :
          /\ Content(res.second)[i] = op.delim
          /\ i > 1

\* C20: rsplit(str, delim) gives what split(str, delim) gives, for every
\* string and delimiter: the same count and the same tokens in the same
\* left-to-right order, empty tokens skipped alike.
C20_RSplitIsSplit ==
    op.name = "rsplit" =>
        LET forward == split(pre, op.delim)
        IN  /\ res.count = forward.count
            /\ \A k \in 0..(res.count - 1) :
                  Content(res.parts[k]) = Content(forward.parts[k])

\* ------------------------------------------------------ stream output

\* os << const CharT*: the units in front of the first terminator.
ostream_insert_cstr(os, str) ==
    os \o SubSeq(str.arr, 1, c_strlen(str.arr, 0))

\* operator<<(os, str): return os << str.data();
stream_insert(os, str) == ostream_insert_cstr(os, data(str))

\* out = the units an empty stream holds after os << s
StreamOut ==
    /\ Idle
    /\ IsF
    /\ pre' = s
    /\ ret' = RObject
    /\ op' = Op("operator<<", NullPtr, 0, NUL, 0)
    /\ out' = stream_insert(<<>>, s)
    /\ res' = NoRes
    /\ UNCHANGED s

InitStream ==
    /\ s = fstring_default(Cap)
    /\ pre = s
    /\ op = Op("idle", NullPtr, 0, NUL, 0)
    /\ ret = RVoid
    /\ out = NoBuf
    /\ res = NoRes

NextStream ==
    F_fill \/ F_resize \/ F_push_back \/ F_pop_back \/ F_clear \/ StreamOut \/ Return

SpecStream == InitStream /\ [][NextStream]_vars

\* C21: writing a buffer to an output stream emits exactly its size() units,
\* in order, in every reachable state of the buffer, also when its content
\* holds the zero unit; the terminator and the units beyond size() are never
\* emitted.
C21_StreamEmitsContent ==
    op.name = "operator<<" => out = Content(pre)

\* C22: zuu::string::insert(pos, src, n) with pos <= size() leaves the old
\* units in front of pos, then the first k units of src, then the old units
\* from pos on, where k = min(n, available()), and the size grows by k: no
\* unit of the old tail is lost or overwritten.  With pos > size() the buffer
\* is unchanged.
C22_InsertKeepsTail ==
    (op.name = "insert" /\ IsS) =>
        LET old == Content(pre)
            k   == Min(op.n, pre.cap - pre.size_)
        IN  /\ op.pos <= pre.size_ =>
                  /\ s.size_ = pre.size_ + k
                  /\ Content(s) = SubSeq(old, 1, op.pos) \o SubSeq(op.str.arr, 1, k)
                                  \o SubSeq(old, op.pos + 1, Len(old))
            /\ op.pos > pre.size_ => s = pre

\* C22 witness: an insertion in front of a non-empty tail that had room for
\* only a part of the units offered.
C22_Witness ==
    /\ op.name = "insert"
    /\ IsS
    /\ op.pos < pre.size_
    /\ s.size_ > pre.size_
    /\ s.size_ < pre.size_ + op.n

\* C23: zuu::string::erase(pos, n) with pos < size() removes exactly the
\* k = min(n, size() - pos) units from pos on: the old units in front of pos
\* and those from pos + k on stay, in order, and the size shrinks by k.  With
\* pos >= size() size and content are unchanged.
C23_EraseRange ==
    (op.name = "erase" /\ IsS) =>
        LET old == Content(pre)
            k   == Min(op.n, pre.size_ - op.pos)
        IN  /\ op.pos < pre.size_ =>
                  /\ s.size_ = pre.size_ - k
                  /\ Content(s) = SubSeq(old, 1, op.pos)
                                  \o SubSeq(old, op.pos + k + 1, Len(old))
            /\ op.pos >= pre.size_ =>
                  /\ s.size_ = pre.size_
                  /\ Content(s) = old

\* C23 witness: units were erased from the middle, with units kept on both
\* sides.
C23_Witness ==
    /\ op.name = "erase"
    /\ IsS
    /\ op.pos > 0
    /\ op.n > 0
    /\ op.pos + op.n < pre.size_

\* ------------------------------------------------------------ substrings

\* Mutant: the units are taken from the start of the buffer.
string_substr_from_start(b, pos, len) ==
    IF pos >= b.size_ THEN string_default(b.cap)
    ELSE assign_impl(string_default(b.cap), data(b),
                     IF len = npos THEN b.size_ - pos ELSE Min(len, b.size_ - pos))

\* zuu::string::substr(pos, len); len = npos is the default argument.
string_substr(b, pos, len) ==
    LET result       == string_default(b.cap)
        actual_count == IF len = npos THEN b.size_ - pos ELSE Min(len, b.size_ - pos)
        from         == SubSeq(data(b).arr, pos + 1, b.cap + 1)
    IN  IF pos >= b.size_ THEN result
        ELSE assign_impl(result, Ptr(from), actual_count)

\* Strings of both classes holding up to Cap units.
SubInputs ==
    {fstring_from_ptr_len(Cap, Ptr(a), Len(a)) : a \in SeqsUpTo(Units, Cap)}
    \cup {assign_impl(string_default(Cap), Ptr(a), Len(a)) : a \in SeqsUpTo(Units, Cap)}

\* out = s.substr(pos, len)
Substr ==
    /\ Idle
    /\ \E pos \in Counts, len \in Counts \cup {npos} :
          /\ op' = Op("substr", NullPtr, len, NUL, pos)
          /\ out' = IF IsS THEN string_substr(s, pos, len) ELSE substr(s, s.cap, pos, len)
    /\ pre' = s
    /\ ret' = RObject
    /\ res' = NoRes
    /\ UNCHANGED s

\* out = copy of s with the range (pos, len) replaced by the substring just
\* taken: copy.replace(pos, len, sub.data(), sub.size())
Reembed ==
    /\ op.name = "substr"
    /\ IsS
    /\ op.n # npos
    /\ op' = [op EXCEPT !.name = "substr;replace", !.str = data(out)]
    /\ out' = string_replace(s, op.pos, op.n, data(out), out.size_).buf
    /\ UNCHANGED <<s, pre, ret, res>>

InitSub ==
    /\ s \in SubInputs
    /\ pre = s
    /\ op = Op("idle", NullPtr, 0, NUL, 0)
    /\ ret = RVoid
    /\ out = NoBuf
    /\ res = NoRes

NextSub == Substr \/ Reembed \/ Return

SpecSub == InitSub /\ [][NextSub]_vars

\* C24: for every buffer and every pos and count with pos + count <= size(),
\* substr(pos, count) has exactly count units, the units [pos, pos + count)
\* of the buffer, and replacing the range (pos, count) of a copy of the
\* buffer by that substring gives the content of the buffer back; substr
\* with pos >= size() is empty.
C24_SubstrRoundTrip ==
    /\ (op.name = "substr" /\ op.n # npos /\ op.pos + op.n <= s.size_) =>
          /\ out.size_ = op.n
          /\ Content(out) = SubSeq(Content(s), op.pos + 1, op.pos + op.n)
    /\ (op.name = "substr" /\ op.pos >= s.size_) => out.size_ = 0
    /\ (op.name = "substr;replace" /\ op.pos + op.n <= s.size_) =>
          /\ out.size_ = s.size_
          /\ Content(out) = Content(s)

\* C24 witness: an inner range of a full zuu::string, with different units
\* around it, was taken out and put back.
C24_Witness ==
    /\ op.name = "substr;replace"
    /\ s.size_ = s.cap
    /\ op.pos > 0
    /\ op.n > 0
    /\ op.pos + op.n < s.size_
    /\ s.data_[0] # s.data_[op.pos]
    /\ Content(out) = Content(s)

\* ------------------------------------------------------- parsing of text

\* Longest text handed to parse_int.
ParseLen == 3

\* The digits '1' and '8'.
D1 == D0 + 1

D8 == D0 + 8

\* Units of the texts handed to parse_int: both signs, digits, a letter that
\* is a digit of base 16, a letter that is not, and a space.
ParseUnits == {MINUS, PLUS, D0, D1, D8, LA, LZ, SP}

ParseTexts ==
    {fstring_from_ptr_len(ParseLen, Ptr(a), Len(a)) : a \in SeqsUpTo(ParseUnits, ParseLen)}

\* The bases parse_int is called with: the default and one above 10.
ParseBases == {10, 10 + 6}

\* ret = parse_int<T>(out, base), out any text.  An undefined signed overflow
\* leaves any value of T.
ParseText ==
    /\ Idle
    /\ \E ty \in IntTypes, base \in ParseBases, text \in ParseTexts :
          LET r == parse_int(ty, text, base)
          IN  /\ out' = text
              /\ op' = NumOp("parse_int", ty, base, 0, NUL, FALSE)
              /\ IF r.ub THEN \E v \in IntValues(ty) : ret' = RCount(v)
                 ELSE ret' = RCount(r.val)
    /\ UNCHANGED <<s, pre, res>>

NextParse == ParseText \/ Return

SpecParse == InitNum /\ [][NextParse]_vars

\* Whether a unit is a digit of the base: a decimal digit or a letter, of a
\* value below the base.
ValidDigit(ch, base) ==
    \/ ch \in D0..D9 /\ ch - D0 < base
    \/ ch \in LA..LZ /\ 10 + (ch - LA) < base
    \/ ch \in UA..UZ /\ 10 + (ch - UA) < base

DigitValue(ch) ==
    IF ch \in D0..D9 THEN ch - D0
    ELSE IF ch \in LA..LZ THEN 10 + (ch - LA)
    ELSE 10 + (ch - UA)

\* The value of the longest run of valid digits of a text from position i
\* on, given the value acc of the digits before i.
RECURSIVE RunValue(_, _, _, _)
RunValue(text, base, i, acc) ==
    IF i <= Len(text) /\ ValidDigit(text[i], base)
    THEN RunValue(text, base, i + 1, acc * base + DigitValue(text[i]))
    ELSE acc

\* The number a text begins with: an optional sign, then the longest prefix
\* of valid digits; 0 when there is no digit.
PrefixValue(text, base) ==
    IF Len(text) > 0 /\ text[1] = MINUS THEN -RunValue(text, base, 2, 0)
    ELSE IF Len(text) > 0 /\ text[1] = PLUS THEN RunValue(text, base, 2, 0)
    ELSE RunValue(text, base, 1, 0)

\* C25: parse_int takes an optional sign, then the longest prefix of units
\* that are digits of the base (letters for bases above 10), returns the
\* value of that prefix and ignores the rest of the text; with no digit
\* taken (empty text, a sign alone, invalid text) it returns 0.  The value is
\* compared whenever the type can hold it.
C25_ParsePrefix ==
    (op.name = "parse_int" /\ out.cap = ParseLen) =>
        LET v == PrefixValue(Content(out), op.n)
        IN  v \in IntValues(op.ty) => ret = RCount(v)

\* ------------------------------------------------- three-way comparison

\* std::strong_ordering of two numbers: -1 less, 0 equal, 1 greater.
order(x, y) == IF x < y THEN -1 ELSE IF x > y THEN 1 ELSE 0

\* The defaulted comparison of the member data_: all Cap + 1 units, in index
\* order, from index i.
RECURSIVE compare_data(_, _, _)
compare_data(a, b, i) ==
    IF i > a.cap THEN 0
    ELSE IF a.data_[i] # b.data_[i] THEN order(a.data_[i], b.data_[i])
    ELSE compare_data(a, b, i + 1)

\* a <=> b for two basic_fstring<Cap>: operator<=>(const basic_fstring&) =
\* default compares the members in the order they are declared, data_ and then
\* size_.
three_way(a, b) ==
    LET c == compare_data(a, b, 0)
    IN  IF c # 0 THEN c ELSE order(a.size_, b.size_)

\* ret = s <=> other, other a newly constructed basic_fstring<Cap> holding the
\* text t.
F_three_way ==
    /\ IsF
    /\ \E t \in Texts :
          Call(Op("<=>", Lit(t), 0, NUL, 0),
               [buf |-> s, ret |-> RCount(three_way(s, fstring_from_literal(Cap, Lit(t))))])

NextCompare ==
    F_from_literal \/ F_push_back \/ F_resize \/ F_clear \/ F_three_way \/ Return

SpecCompare == InitStream /\ [][NextCompare]_vars

\* The lexicographic order of two texts: the first differing unit of the
\* shared prefix decides, and the lengths when there is none.
RECURSIVE Lexicographic(_, _, _)
Lexicographic(x, y, i) ==
    IF i > Len(x) \/ i > Len(y) THEN order(Len(x), Len(y))
    ELSE IF x[i] # y[i] THEN order(x[i], y[i])
    ELSE Lexicographic(x, y, i + 1)

\* C26: the three-way comparison of two buffers is the lexicographic
\* comparison of their first size() units over the shared prefix length, with
\* the length as the final tie-break: a buffer whose content is a proper
\* prefix of the other's is less, and two buffers are equivalent only when
\* length and content are equal.
C26_ThreeWayIsLexicographic ==
    op.name = "<=>" =>
        ret = RCount(Lexicographic(Content(pre), Content(OtherOperand), 1))

\* --------------------------------------- the scanning loops, step by step

\* One pass through the body of the while loop of count_fn::operator()(str,
\* substr): brk when the loop is left by break.
count_step(str, needle, substr_len, pos, cnt) ==
    LET found == find(str, needle, pos)
    IN  IF found = npos THEN [brk |-> TRUE, pos |-> pos, cnt |-> cnt]
        ELSE [brk |-> FALSE, pos |-> count_resume(found, substr_len), cnt |-> cnt + 1]

\* Mutant: the scan resumes at the match.
split_by_resume_at_match(found, delimiter) == found

\* pos = found + delimiter.size()
split_by_resume(found, delimiter) == found + delimiter.size_

\* One pass through the body of the while loop of split_str_fn::operator().
split_by_step(str, delimiter, pos, result) ==
    LET found == find(str, data(delimiter), pos)
    IN  IF found = npos
        THEN LET part == collect_part(str, pos, str.size_, fstring_default(str.cap))
             IN  [brk |-> TRUE, pos |-> pos,
                  result |-> IF ~empty(part) THEN add_part(result, part) ELSE result]
        ELSE LET part == collect_part(str, pos, found, fstring_default(str.cap))
             IN  [brk |-> FALSE, pos |-> split_by_resume(found, delimiter),
                  result |-> IF ~empty(part) THEN add_part(result, part) ELSE result]

\* Strings scanned step by step: basic_fstring<SCap> without zero units.
ScanInputs ==
    {fstring_from_ptr_len(SCap, Ptr(a), Len(a)) : a \in SeqsUpTo(TextUnits, SCap)}

\* count(s, substr) up to its loop: op.pos is pos, ret is cnt.
CountEnter ==
    /\ Idle
    /\ \E x \in Needles :
          LET substr_len == IF x.null THEN 0 ELSE c_strlen(x.arr, 0)
          IN  op' = Op(IF substr_len = 0 THEN "count.done" ELSE "count.loop",
                       x, substr_len, NUL, 0)
    /\ ret' = RCount(0)
    /\ pre' = s
    /\ out' = NoBuf
    /\ res' = NoRes
    /\ UNCHANGED s

\* The loop test of count and, when it holds, one pass through the body.
CountIterate ==
    /\ op.name = "count.loop"
    /\ IF op.pos < s.size_
       THEN LET r == count_step(s, op.str, op.n, op.pos, ret.val)
            IN  /\ op' = [op EXCEPT !.name = IF r.brk THEN "count.done" ELSE @,
                                    !.pos = r.pos]
                /\ ret' = RCount(r.cnt)
       ELSE /\ op' = [op EXCEPT !.name = "count.done"]
            /\ ret' = ret
    /\ UNCHANGED <<s, pre, out, res>>

\* split_by(s, delimiter) up to its loop: op.pos is pos, out the delimiter,
\* res the result, and ret counts the passes through the loop body.
SplitByEnter ==
    /\ Idle
    /\ \E d \in Delimiters :
          /\ out' = d
          /\ IF empty(d)
             THEN /\ op' = Op("split_by.done", data(d), d.size_, NUL, 0)
                  /\ res' = split_by(s, d)
             ELSE /\ op' = Op("split_by.loop", data(d), d.size_, NUL, 0)
                  /\ res' = split_result_default(s.cap)
    /\ ret' = RCount(0)
    /\ pre' = s
    /\ UNCHANGED s

\* The loop test of split_by and, when it holds, one pass through the body.
SplitByIterate ==
    /\ op.name = "split_by.loop"
    /\ IF op.pos < s.size_ /\ has_room(res)
       THEN LET r == split_by_step(s, out, op.pos, res)
            IN  /\ op' = [op EXCEPT !.name = IF r.brk THEN "split_by.done" ELSE @,
                                    !.pos = r.pos]
                /\ res' = r.result
                /\ ret' = RCount(ret.val + 1)
       ELSE /\ op' = [op EXCEPT !.name = "split_by.done"]
            /\ res' = res
            /\ ret' = ret
    /\ UNCHANGED <<s, pre, out>>

\* The call returns once its loop is left.
ScanReturn ==
    /\ op.name \in {"count.done", "split_by.done"}
    /\ Return

InitScan ==
    /\ s \in ScanInputs
    /\ pre = s
    /\ op = Op("idle", NullPtr, 0, NUL, 0)
    /\ ret = RVoid
    /\ out = NoBuf
    /\ res = NoRes

NextScan == CountEnter \/ CountIterate \/ SplitByEnter \/ SplitByIterate \/ ScanReturn

SpecScan == InitScan /\ [][NextScan]_vars

\* A scanning loop is running.
InLoop == op.name \in {"count.loop", "split_by.loop"}

\* The call just entered was given an empty needle or an empty delimiter.
EmptyNeedle ==
    \/ op.name \in {"count.loop", "count.done"} /\ op.n = 0
    \/ op.name \in {"split_by.loop", "split_by.done"} /\ out.size_ = 0

\* C27: count(str, substr) and split_by(str, delim) terminate on every input:
\* every pass through their scanning loops that stays in the loop moves the
\* scan position forward, also when the needle or the delimiter matches at
\* every position, and by no more than the length of the needle past the end
\* of the string, where the loop test ends the loop; with an empty needle or
\* delimiter no loop is entered.
C27_ScansTerminate ==
    /\ [][(InLoop /\ InLoop') => (op'.pos > op.pos /\ op'.pos <= s.size_ + op.n)]_vars
    /\ [][(Idle /\ EmptyNeedle') => ~InLoop']_vars

\* C27 witness: the delimiter matched at every position so far, the scan is
\* in the middle of the string and no part has been stored.
C27_Witness ==
    /\ op.name = "split_by.loop"
    /\ op.pos > 1
    /\ op.pos < s.size_
    /\ res.count = 0

\* ---------------------------------------------- lines and whitespace runs

\* A line or a run is stored when it is not empty and a slot is free; the
\* pending text is cleared only when it was stored.
flush_part(result, current) ==
    IF ~empty(current) /\ has_room(result)
    THEN [result |-> add_part(result, current), current |-> clear(current).buf]
    ELSE [result |-> result, current |-> current]

\* if (!current.full()) current.push_back(ch);
keep_unit(current, ch) ==
    IF ~full(current) THEN push_back(current, ch).buf ELSE current

\* The for loop of split_lines_fn::apply, from index i: '\n', '\r' and the
\* pair '\r' '\n' each end a line.
RECURSIVE split_lines_loop(_, _, _, _)
split_lines_loop(str, i, result, current) ==
    IF i < str.size_
    THEN LET ch == str.data_[i]
         IN  IF ch = LF
             THEN LET f == flush_part(result, current)
                  IN  split_lines_loop(str, i + 1, f.result, f.current)
             ELSE IF ch = CR
             THEN LET j == IF i + 1 < str.size_ /\ str.data_[i + 1] = LF
                           THEN i + 1 ELSE i
                      f == flush_part(result, current)
                  IN  split_lines_loop(str, j + 1, f.result, f.current)
             ELSE split_lines_loop(str, i + 1, result, keep_unit(current, ch))
    ELSE flush_part(result, current).result

\* split_lines(str): split_lines_fn::apply
split_lines(str) ==
    split_lines_loop(str, 0, split_result_default(str.cap), fstring_default(str.cap))

\* The is_space lambda of split_whitespace_fn::apply.
split_whitespace_is_space(ch) == ch \in {SP, TAB, LF, CR, FF, VT}

\* The for loop of split_whitespace_fn::apply, from index i.
RECURSIVE split_whitespace_loop(_, _, _, _)
split_whitespace_loop(str, i, result, current) ==
    IF i < str.size_
    THEN IF split_whitespace_is_space(str.data_[i])
         THEN LET f == flush_part(result, current)
              IN  split_whitespace_loop(str, i + 1, f.result, f.current)
         ELSE split_whitespace_loop(str, i + 1, result,
                                    keep_unit(current, str.data_[i]))
    ELSE flush_part(result, current).result

\* split_whitespace(str): split_whitespace_fn::apply
split_whitespace(str) ==
    split_whitespace_loop(str, 0, split_result_default(str.cap),
                          fstring_default(str.cap))

\* Input strings holding line ends and blanks: basic_fstring<SCap>.
LineInputs ==
    {fstring_from_ptr_len(SCap, Ptr(a), Len(a)) : a \in SeqsUpTo({LF, CR, LA}, SCap)}

\* res = split_lines(s)
SplitLines ==
    /\ Idle
    /\ res' = split_lines(s)
    /\ op' = Op("split_lines", NullPtr, 0, NUL, 0)
    /\ pre' = s
    /\ ret' = RObject
    /\ out' = NoBuf
    /\ UNCHANGED s

\* res = split_whitespace(s)
SplitWhitespace ==
    /\ Idle
    /\ res' = split_whitespace(s)
    /\ op' = Op("split_whitespace", NullPtr, 0, NUL, 0)
    /\ pre' = s
    /\ ret' = RObject
    /\ out' = NoBuf
    /\ UNCHANGED s

InitSegment ==
    /\ s \in SplitInputs \cup LineInputs
    /\ pre = s
    /\ op = Op("idle", NullPtr, 0, NUL, 0)
    /\ ret = RVoid
    /\ out = NoBuf
    /\ res = NoRes

NextSegment ==
    Split \/ SplitBy \/ SplitLines \/ SplitWhitespace \/ RSplit \/ Return

SpecSegment == InitSegment /\ [][NextSegment]_vars

\* The operations that cut a string into parts.
SplitOps == {"split", "split_by", "split_lines", "split_whitespace", "rsplit"}

\* C28: whatever the input and the delimiter, the empty string and the empty
\* delimiter included, every part a split operation stored (every index
\* below count) holds at least one unit.
C28_PartsNonEmpty ==
    op.name \in SplitOps =>
        \A k \in 0..(res.count - 1) : res.parts[k].size_ > 0

\* C29: whatever the value v, the width w and the fill f, the text
\* to_fstring(pad_left(v, w, f)) returns ends with the whole decimal text of
\* v: cutting the padded text to the 64 units of the result takes no digit
\* of the value away.
C29_PadLeftKeepsDigits ==
    LET d == Decimal(op.n)
        t == Content(out)
    IN  op.name = "pad_left" =>
            /\ Len(t) >= Len(d)
            /\ \A i \in 1..Len(d) : t[Len(t) - Len(d) + i] = d[i]

\* C30: for every buffer, every start position pos, those behind size()
\* included, and every needle, the empty one included, find returns npos or
\* an index i with i + len(needle) <= size(): no position outside the
\* content of the buffer.
C30_FindInsideContent ==
    (op.name = "find" /\ ~op.str.null) =>
        \/ ret = RCount(npos)
        \/ /\ ret.kind = "count"
           /\ ret.val >= 0
           /\ ret.val + Len(Needle) <= s.size_

====
